---- MODULE Spec2Model ----
(***************************************************************************)
(* PathWise (COMS4995 RAG chatbot): state-machine model of                 *)
(*   - get_with_backoff (rating client and curricula scraper),             *)
(*   - the FastAPI service (startup hook, /ask, /plan, /professors),       *)
(*   - parse_planning_response,                                            *)
(*   - the vector stores and the retrievers built on them.                 *)
(* Each part has its own specification over the shared variable tuple;     *)
(* the variables of the other parts stay at their initial value.           *)
(***************************************************************************)
EXTENDS Integers, Sequences, FiniteSets, TLC

VARIABLES
    \* ---- get_with_backoff ----
    copy,        \* which copy runs: "ratings" or "scrape"
    pc,          \* position in get_with_backoff
    attempt,     \* number of loop iterations entered (the for-loop's index + 1)
    delay,       \* local `delay`, in milliseconds
    r,           \* the last response (local `r`)
    requests,    \* how many requests.get calls were made
    sleeps,      \* how many time.sleep calls returned
    lastSleep,   \* duration of the last sleep, in milliseconds
    preDelay,    \* value of `delay` when the last sleep was entered
    plain,       \* every response so far was a 429 without a Retry-After header
    prior,       \* the value of `plain` before the last response arrived
    all429,      \* every response so far was a 429
    outcome,     \* how the call ended: none / return / raise
    \* ---- API service (src/api/app.py) ----
    st,                      \* position of startup_event
    embedder,                \* module global: "None" or "set"
    requirements_retriever,  \* module global: "None" or "set"
    professor_retriever,     \* module global: "None" or "set"
    llm_interface,           \* module global: "None" or "set"
    pydantic_strict,         \* the installed pydantic rejects numbers for str fields (v2) or coerces them (v1)
    route,                   \* route of the request being handled
    hpc,                     \* position of its handler
    checked,                 \* the handler's 503 check has passed
    usedReq,                 \* calls made on requirements_retriever by this request
    usedProf,                \* calls made on professor_retriever by this request
    usedLLM,                 \* calls made on llm_interface by this request
    docs,                    \* len(retrieved_docs) in ask_question; -1 while unassigned
    plan_text,               \* the LLM's planning response, as tokens
    parsed,                  \* result of parse_planning_response(plan_text)
    response,                \* the response sent for the request
    \* ---- vector store and retrievers ----
    backend,     \* "chroma" (collection-backed) or "faiss" (flat-file)
    index,       \* the stored embeddings, in insertion order
    documents,   \* the stored records {id, metadata}, parallel to index
    last,        \* the last call made on the store or a retriever, and its result
    disk,        \* the flat-file store's files: whether they exist and what they hold
    \* ---- DocumentProcessor.chunk_text ----
    chunk_size,      \* self.chunk_size
    chunk_overlap,   \* self.chunk_overlap
    text,            \* the input: one flag per word, TRUE when it ends a sentence
    cpc,             \* position in chunk_text: "idle", "loop" or "done"
    next_sentence,   \* index of the sentence the for-loop takes next
    current_chunk,   \* local current_chunk: the sentences (by index) gathered
    current_length,  \* local current_length
    chunks,          \* local chunks: each chunk as its sentences
    overlaps,        \* overlap_words computed at each closing of a chunk
    \* ---- one call of a function of the offline tools ----
    fn,          \* the function called ("none" before any call)
    arg,         \* its argument
    res,         \* its result, once returned
    returned,    \* TRUE once the call has returned
    \* ---- scripts/process_culpa_data.py main() ----
    argv,        \* sys.argv
    files,       \* the file system: what lies at the default and at the given path
    mpc,         \* position in main
    culpa_csv,   \* local culpa_csv: "default" or "given"
    exit_code,   \* -1 while running, else the status the process ended with
    \* ---- console chat loops (demo/chat_cli.py, demo/chatbot_demo.py) ----
    demo,        \* which loop runs: "chat_cli" or "chatbot_demo"
    lpc,         \* position in the loop: "idle", "read", "handle", "except" or "done"
    stdin,       \* the input events still to come; after them input() meets end-of-input
    question,    \* local question
    errors       \* how many times the generic handler printed an error (capped)

boVars == <<copy, pc, attempt, delay, r, requests, sleeps, lastSleep, preDelay,
            plain, prior, all429, outcome>>

apiVars == <<st, embedder, requirements_retriever, professor_retriever, llm_interface,
             pydantic_strict, route, hpc, checked, usedReq, usedProf, usedLLM, docs,
             plan_text, parsed, response>>

storeVars == <<backend, index, documents, last, disk>>

chunkVars == <<chunk_size, chunk_overlap, text, cpc, next_sentence, current_chunk,
               current_length, chunks, overlaps>>

\* The offline tools: document processing.
fnVars == <<fn, arg, res, returned>>

mainVars == <<argv, files, mpc, culpa_csv, exit_code>>

loopVars == <<demo, lpc, stdin, question, errors>>

scriptVars == <<mainVars, loopVars>>

toolVars == <<chunkVars, fnVars, scriptVars>>

vars == <<boVars, apiVars, storeVars, toolVars>>

(***************************************************************************)
(* Texts, tokens and JSON values                                           *)
(*                                                                         *)
(* A text (the LLM's planning response) is a sequence of tokens: JSON      *)
(* punctuation, JSON string / number / null literals, whitespace, and      *)
(* narrative words (which no JSON value may contain).                      *)
(***************************************************************************)

Tok(k, s, n) == [k |-> k, s |-> s, n |-> n]
LBrace == Tok("lbrace", "", 0)
RBrace == Tok("rbrace", "", 0)
LBrack == Tok("lbrack", "", 0)
RBrack == Tok("rbrack", "", 0)
Colon == Tok("colon", "", 0)
Comma == Tok("comma", "", 0)
Ws == Tok("ws", "", 0)
NullTok == Tok("null", "", 0)
Word == Tok("word", "text", 0)
Str(s) == Tok("str", s, 0)
Num(n) == Tok("num", "", n)

\* Decoded JSON values: str, num, null, arr (vals) and obj (keys, vals).
VStr(s) == [k |-> "str", s |-> s, n |-> 0, keys |-> <<>>, vals |-> <<>>]
VNum(n) == [k |-> "num", s |-> "", n |-> n, keys |-> <<>>, vals |-> <<>>]
VNull == [k |-> "null", s |-> "", n |-> 0, keys |-> <<>>, vals |-> <<>>]
VArr(vals) == [k |-> "arr", s |-> "", n |-> 0, keys |-> <<>>, vals |-> vals]
VObj(keys, vals) == [k |-> "obj", s |-> "", n |-> 0, keys |-> keys, vals |-> vals]

MinOf(S) == CHOOSE x \in S : \A y \in S : x <= y
MaxOf(S) == CHOOSE x \in S : \A y \in S : x >= y

\* re.search(r'\{[\s\S]*"semesters"[\s\S]*\}', plan_text): the leftmost "{"
\* that has a quoted "semesters" after it and a "}" after that; both
\* [\s\S]* are greedy, so the match runs to the last "}" of the text.
SearchStarts(t) ==
    {i \in 1..Len(t) :
        /\ t[i].k = "lbrace"
        /\ \E j \in (i+1)..Len(t) :
              /\ t[j] = Str("semesters")
              /\ \E l \in (j+1)..Len(t) : t[l].k = "rbrace"}

SearchFound(t) == SearchStarts(t) # {}
SearchStart(t) == MinOf(SearchStarts(t))
SearchEnd(t) == MaxOf({l \in 1..Len(t) : t[l].k = "rbrace"})

RECURSIVE SkipWs(_, _)
SkipWs(t, i) == IF i <= Len(t) /\ t[i].k = "ws" THEN SkipWs(t, i + 1) ELSE i

ParseFail == [ok |-> FALSE, v |-> VNull, i |-> 0]
ParseOk(v, i) == [ok |-> TRUE, v |-> v, i |-> i]

\* json.loads: a recursive-descent decoder over the tokens.
RECURSIVE ParseValue(_, _), ParseMembers(_, _, _, _), ParseItems(_, _, _)

ParseValue(t, i0) ==
    LET i == SkipWs(t, i0) IN
    IF i > Len(t) THEN ParseFail
    ELSE IF t[i].k = "str" THEN ParseOk(VStr(t[i].s), i + 1)
    ELSE IF t[i].k = "num" THEN ParseOk(VNum(t[i].n), i + 1)
    ELSE IF t[i].k = "null" THEN ParseOk(VNull, i + 1)
    ELSE IF t[i].k = "lbrace" THEN
        LET j == SkipWs(t, i + 1) IN
        IF j <= Len(t) /\ t[j].k = "rbrace" THEN ParseOk(VObj(<<>>, <<>>), j + 1)
        ELSE ParseMembers(t, j, <<>>, <<>>)
    ELSE IF t[i].k = "lbrack" THEN
        LET j == SkipWs(t, i + 1) IN
        IF j <= Len(t) /\ t[j].k = "rbrack" THEN ParseOk(VArr(<<>>), j + 1)
        ELSE ParseItems(t, j, <<>>)
    ELSE ParseFail

\* The members of an object, from the key at position i on.
ParseMembers(t, i, keys, vals) ==
    IF i > Len(t) \/ t[i].k # "str" THEN ParseFail
    ELSE
        LET c == SkipWs(t, i + 1) IN
        IF c > Len(t) \/ t[c].k # "colon" THEN ParseFail
        ELSE
            LET pv == ParseValue(t, c + 1) IN
            IF ~pv.ok THEN ParseFail
            ELSE
                LET e == SkipWs(t, pv.i) IN
                IF e > Len(t) THEN ParseFail
                ELSE IF t[e].k = "rbrace"
                    THEN ParseOk(VObj(Append(keys, t[i].s), Append(vals, pv.v)), e + 1)
                ELSE IF t[e].k = "comma"
                    THEN ParseMembers(t, SkipWs(t, e + 1), Append(keys, t[i].s), Append(vals, pv.v))
                ELSE ParseFail

\* The items of an array, from the value at position i on.
ParseItems(t, i, vals) ==
    LET pv == ParseValue(t, i) IN
    IF ~pv.ok THEN ParseFail
    ELSE
        LET e == SkipWs(t, pv.i) IN
        IF e > Len(t) THEN ParseFail
        ELSE IF t[e].k = "rbrack" THEN ParseOk(VArr(Append(vals, pv.v)), e + 1)
        ELSE IF t[e].k = "comma" THEN ParseItems(t, e + 1, Append(vals, pv.v))
        ELSE ParseFail

\* json.loads(json_str): the whole string must be one value, else JSONDecodeError.
json_loads(t) ==
    LET p == ParseValue(t, 1) IN
    IF p.ok /\ SkipWs(t, p.i) > Len(t) THEN [ok |-> TRUE, v |-> p.v]
    ELSE [ok |-> FALSE, v |-> VNull]

\* dict: `key in d`, and d.get(key, default) (the last of duplicate keys wins).
Has(d, key) == \E i \in 1..Len(d.keys) : d.keys[i] = key
Get(d, key, default) ==
    IF Has(d, key)
    THEN d.vals[MaxOf({i \in 1..Len(d.keys) : d.keys[i] = key})]
    ELSE default

\* `for x in v`: lists yield their items, dicts their keys, strings their
\* characters (each a string); numbers and None are not iterable (TypeError).
Iterable(v) == v.k \in {"arr", "obj", "str"}
IterItems(v) ==
    IF v.k = "arr" THEN v.vals
    ELSE IF v.k = "obj" THEN [i \in 1..Len(v.keys) |-> VStr(v.keys[i])]
    ELSE IF v.s = "" THEN <<>>
    ELSE <<VStr("char")>>

\* str.strip() on a token sequence: leading and trailing whitespace goes.
RECURSIVE Strip(_)
Strip(t) ==
    IF t = <<>> THEN t
    ELSE IF t[1].k = "ws" THEN Strip(Tail(t))
    ELSE IF t[Len(t)].k = "ws" THEN Strip(SubSeq(t, 1, Len(t) - 1))
    ELSE t

(***************************************************************************)
(* Course / Semester / PlanResponse validation (src/api/models.py)         *)
(***************************************************************************)

\* A `str` field: a string; a number is coerced by pydantic 1 and rejected
\* by pydantic 2.
StrFieldOk(v, strict) == v.k = "str" \/ (v.k = "num" /\ ~strict)
OptStrFieldOk(v, strict) == v.k = "null" \/ StrFieldOk(v, strict)
IntFieldOk(v) == v.k = "num"
OptFloatFieldOk(v) == v.k \in {"num", "null"}

default_credits == 3

\* Course(**course_data): "" when the record is built, else the exception.
CourseExc(cd, strict) ==
    IF cd.k # "obj" THEN "TypeError"
    ELSE IF /\ Has(cd, "course_code") /\ StrFieldOk(Get(cd, "course_code", VNull), strict)
            /\ Has(cd, "category") /\ StrFieldOk(Get(cd, "category", VNull), strict)
            /\ Has(cd, "credits") => IntFieldOk(Get(cd, "credits", VNull))
            /\ OptStrFieldOk(Get(cd, "course_name", VNull), strict)
            /\ OptStrFieldOk(Get(cd, "prof", VNull), strict)
            /\ OptFloatFieldOk(Get(cd, "rating", VNull))
         THEN ""
    ELSE "ValidationError"

CourseOf(cd) ==
    [course_code |-> Get(cd, "course_code", VNull),
     category |-> Get(cd, "category", VNull),
     credits |-> Get(cd, "credits", VNum(default_credits)).n]

RECURSIVE SumCredits(_)
SumCredits(cs) == IF cs = <<>> THEN 0 ELSE cs[1].credits + SumCredits(Tail(cs))

\* One pass of the loop body over sem_data: "" when the Semester is built,
\* else the exception raised (in evaluation order).
SemExc(sd, strict) ==
    IF sd.k # "obj" THEN "AttributeError"
    ELSE
        LET cv == Get(sd, "courses", VArr(<<>>)) IN
        IF ~Iterable(cv) THEN "TypeError"
        ELSE
            LET items == IterItems(cv)
                bad == {i \in 1..Len(items) : CourseExc(items[i], strict) # ""}
            IN  IF bad # {} THEN CourseExc(items[MinOf(bad)], strict)
                ELSE IF ~Has(sd, "name") THEN "KeyError"
                ELSE IF ~StrFieldOk(Get(sd, "name", VNull), strict) THEN "ValidationError"
                ELSE ""

\* total_credits computed some other way: the value the JSON supplied.
TotalCredits_Mut(sd, courses) == Get(sd, "total_credits", VNum(0)).n

\* total_credits=sum(c.credits for c in courses)
TotalCredits(sd, courses) == SumCredits(courses)

SemesterOf(sd) ==
    LET items == IterItems(Get(sd, "courses", VArr(<<>>)))
        courses == [i \in 1..Len(items) |-> CourseOf(items[i])]
    IN  [name |-> Get(sd, "name", VNull),
         courses |-> courses,
         total_credits |-> TotalCredits(sd, courses)]

FAILURE_NOTE == "Unable to generate structured plan. See explanation."

Parsed(kind, semesters, notes, explanation, exc) ==
    [kind |-> kind, semesters |-> semesters, notes |-> notes,
     explanation |-> explanation, exc |-> exc]

NotParsed == Parsed("none", <<>>, VNull, <<>>, "")

\* return [], ["Unable to generate structured plan. See explanation."], plan_text
Fallback(t) == Parsed("fallback", <<>>, VArr(<<VStr(FAILURE_NOTE)>>), t, "")

\* parse_planning_response(plan_text): a (semesters, notes, explanation)
\* triple, or the exception that leaves the function.
parse_planning_response(t, strict) ==
    IF ~SearchFound(t) THEN Fallback(t)
    ELSE
        LET js == json_loads(SubSeq(t, SearchStart(t), SearchEnd(t))) IN
        IF ~js.ok THEN Fallback(t)
        ELSE
            LET sv == Get(js.v, "semesters", VArr(<<>>)) IN
            IF ~Iterable(sv) THEN Parsed("raise", <<>>, VNull, <<>>, "TypeError")
            ELSE
                LET items == IterItems(sv)
                    bad == {i \in 1..Len(items) : SemExc(items[i], strict) # ""}
                IN  IF bad # {}
                    THEN Parsed("raise", <<>>, VNull, <<>>, SemExc(items[MinOf(bad)], strict))
                    ELSE Parsed("structured",
                                [i \in 1..Len(items) |-> SemesterOf(items[i])],
                                Get(js.v, "notes", VArr(<<>>)),
                                Strip(SubSeq(t, 1, SearchStart(t) - 1)),
                                "")

\* PlanResponse(...): notes must be a list of strings.
PlanResponseValid(p, strict) ==
    /\ p.notes.k = "arr"
    /\ \A i \in 1..Len(p.notes.vals) : StrFieldOk(p.notes.vals[i], strict)

Resp(status, answer, n_sources, disclaimer, semesters, notes, explanation, health) ==
    [status |-> status, answer |-> answer, n_sources |-> n_sources,
     disclaimer |-> disclaimer, semesters |-> semesters, notes |-> notes,
     explanation |-> explanation, health |-> health]

NoResponseYet == Resp(0, <<>>, 0, "", <<>>, VNull, <<>>, "")


\* The API service before its startup hook ran.
ApiIdle ==
    /\ st = "config"
    /\ embedder = "None"
    /\ requirements_retriever = "None"
    /\ professor_retriever = "None"
    /\ llm_interface = "None"
    /\ pydantic_strict = FALSE
    /\ route = "none"
    /\ hpc = "idle"
    /\ checked = FALSE
    /\ usedReq = 0
    /\ usedProf = 0
    /\ usedLLM = 0
    /\ docs = -1
    /\ plan_text = <<>>
    /\ parsed = NotParsed
    /\ response = NoResponseYet

\* The store part before any store is opened.
NoCall == [op |-> "none", q |-> <<3, 4>>, k |-> 0, code |-> "", min_score |-> 0,
           raised |-> FALSE, items |-> <<>>]
Call(op, q, k, code, min_score, raised, items) ==
    [op |-> op, q |-> q, k |-> k, code |-> code, min_score |-> min_score,
     raised |-> raised, items |-> items]

\* Neither <collection>.faiss nor <collection>_metadata.pkl exists.
NoFiles == [exists |-> FALSE, index |-> <<>>, documents |-> <<>>]

StoreIdle ==
    /\ backend = "chroma"
    /\ index = <<>>
    /\ documents = <<>>
    /\ last = NoCall
    /\ disk = NoFiles

\* chunk_text before it is called.
ChunkIdle ==
    /\ chunk_size = 1
    /\ chunk_overlap = 0
    /\ text = <<>>
    /\ cpc = "idle"
    /\ next_sentence = 1
    /\ current_chunk = <<>>
    /\ current_length = 0
    /\ chunks = <<>>
    /\ overlaps = <<>>

\* No function of the offline tools is being called.
FnIdle ==
    /\ fn = "none"
    /\ arg = <<>>
    /\ res = <<>>
    /\ returned = FALSE

\* main() of the CULPA processor before it is run.
MainIdle ==
    /\ argv = <<>>
    /\ files = <<>>
    /\ mpc = "idle"
    /\ culpa_csv = "default"
    /\ exit_code = -1

\* No chat loop is running.
LoopIdle ==
    /\ demo = "none"
    /\ lpc = "idle"
    /\ stdin = <<>>
    /\ question = ""
    /\ errors = 0

ScriptIdle == MainIdle /\ LoopIdle

ToolsIdle == ChunkIdle /\ FnIdle /\ ScriptIdle

(***************************************************************************)
(* get_with_backoff                                                        *)
(***************************************************************************)

\* Largest numeric Retry-After value (seconds) the modelled server sends.
MaxRetryAfter == 2

\* Number of distinct payloads a successful response can carry.
MaxPayload == 2

retries == 10
base_delay == 500

Copies == {"ratings", "scrape"}

\* Statuses the modelled server answers: success, redirect-free 2xx, 429,
\* a client error and a server error.
Statuses == {200, 204, 429, 404, 500}

\* The Retry-After header as requests hands it over: absent (None), an empty
\* string, a decimal number of seconds, or text float() cannot read (an
\* HTTP-date, which RFC 7231 allows).
RetryAfterHeaders ==
    {[kind |-> "none", v |-> 0], [kind |-> "empty", v |-> 0], [kind |-> "date", v |-> 0]}
    \cup {[kind |-> "num", v |-> n] : n \in 0..MaxRetryAfter}

NoResponse == [status |-> 0, retry_after |-> [kind |-> "none", v |-> 0], payload |-> 0]

Responses ==
    {[status |-> s, retry_after |-> h, payload |-> p] :
        s \in Statuses \ {429}, h \in {[kind |-> "none", v |-> 0]}, p \in 1..MaxPayload}
    \cup {[status |-> 429, retry_after |-> h, payload |-> 0] : h \in RetryAfterHeaders}

\* A raise_for_status that lets client errors through.
RaisesForStatus_Mut(status) == status >= 500 /\ status < 600

\* Response.raise_for_status(): raises for 4xx and 5xx.
RaisesForStatus(status) == status >= 400 /\ status < 600

\* `if retry_after:` -- None and the empty string are falsy.
Truthy(h) == h.kind \in {"num", "date"}

\* float(retry_after) raises ValueError on text that is no number.
FloatRaises(h) == h.kind = "date"

\* float(retry_after), seconds to milliseconds.
FloatOf(h) == h.v * 1000

\* A sleep that ignores the Retry-After header.
SleepDelay_Mut(h, d) == d

\* The delay slept on a 429: the header's value when it is truthy, else the
\* current delay.
SleepDelay(h, d) == IF Truthy(h) THEN FloatOf(h) ELSE d

\* A linear backoff: delay += base_delay.
Doubled_Mut(d) == d + base_delay

\* delay *= 2
Doubled(d) == d * 2

\* What the call returns on success: r.json() in the rating client, r itself
\* in the scraper.
ReturnValue(c, resp) ==
    IF c = "ratings" THEN [kind |-> "json", payload |-> resp.payload]
    ELSE [kind |-> "response", payload |-> resp.payload]

InitBackoff ==
    /\ copy \in Copies
    /\ pc = "loop"
    /\ attempt = 0
    /\ delay = base_delay
    /\ r = NoResponse
    /\ requests = 0
    /\ sleeps = 0
    /\ lastSleep = 0
    /\ preDelay = 0
    /\ plain = TRUE
    /\ prior = TRUE
    /\ all429 = TRUE
    /\ outcome = [kind |-> "none", value |-> [kind |-> "none", payload |-> 0]]
    /\ ApiIdle
    /\ StoreIdle
    /\ ToolsIdle

\* for _ in range(retries): r = requests.get(url, timeout=5)
BoRequest ==
    /\ pc = "loop"
    /\ attempt < retries
    /\ \E resp \in Responses :
        /\ r' = resp
        /\ plain' = (plain /\ resp.status = 429 /\ resp.retry_after.kind = "none")
        /\ prior' = plain
        /\ all429' = (all429 /\ resp.status = 429)
    /\ attempt' = attempt + 1
    /\ requests' = requests + 1
    /\ pc' = "got"
    /\ UNCHANGED <<copy, delay, sleeps, lastSleep, preDelay, outcome>>
    /\ UNCHANGED <<apiVars, storeVars, toolVars>>

\* requests.get raises (timeout, connection error): the exception leaves the call.
BoRequestFails ==
    /\ pc = "loop"
    /\ attempt < retries
    /\ attempt' = attempt + 1
    /\ requests' = requests + 1
    /\ plain' = FALSE
    /\ prior' = plain
    /\ all429' = FALSE
    /\ pc' = "raised"
    /\ outcome' = [kind |-> "raise", value |-> [kind |-> "RequestException", payload |-> 0]]
    /\ UNCHANGED <<copy, delay, r, sleeps, lastSleep, preDelay>>
    /\ UNCHANGED <<apiVars, storeVars, toolVars>>

\* if r.status_code != 429: r.raise_for_status(); return ...
BoNot429 ==
    /\ pc = "got"
    /\ r.status # 429
    /\ IF RaisesForStatus(r.status)
       THEN /\ pc' = "raised"
            /\ outcome' = [kind |-> "raise", value |-> [kind |-> "HTTPError", payload |-> r.status]]
       ELSE /\ pc' = "returned"
            /\ outcome' = [kind |-> "return", value |-> ReturnValue(copy, r)]
    /\ UNCHANGED <<copy, attempt, delay, r, requests, sleeps, lastSleep, preDelay, plain, prior, all429>>
    /\ UNCHANGED <<apiVars, storeVars, toolVars>>

\* retry_after = r.headers.get("Retry-After"); if retry_after: delay = float(...)
\* time.sleep(delay); delay *= 2
BoSleep ==
    /\ pc = "got"
    /\ r.status = 429
    /\ ~(Truthy(r.retry_after) /\ FloatRaises(r.retry_after))
    /\ preDelay' = delay
    /\ lastSleep' = SleepDelay(r.retry_after, delay)
    /\ sleeps' = sleeps + 1
    /\ delay' = Doubled(SleepDelay(r.retry_after, delay))
    /\ pc' = "loop"
    /\ UNCHANGED <<copy, attempt, r, requests, plain, prior, all429, outcome>>
    /\ UNCHANGED <<apiVars, storeVars, toolVars>>

\* delay = float(retry_after) raises ValueError: the call ends without sleeping.
BoBadHeader ==
    /\ pc = "got"
    /\ r.status = 429
    /\ Truthy(r.retry_after) /\ FloatRaises(r.retry_after)
    /\ pc' = "raised"
    /\ outcome' = [kind |-> "raise", value |-> [kind |-> "ValueError", payload |-> 0]]
    /\ UNCHANGED <<copy, attempt, delay, r, requests, sleeps, lastSleep, preDelay, plain, prior, all429>>
    /\ UNCHANGED <<apiVars, storeVars, toolVars>>

\* The loop ran `retries` times: raise requests.HTTPError("Too many 429 responses").
BoExhausted ==
    /\ pc = "loop"
    /\ attempt >= retries
    /\ pc' = "raised"
    /\ outcome' = [kind |-> "raise", value |-> [kind |-> "TooMany429", payload |-> 0]]
    /\ UNCHANGED <<copy, attempt, delay, r, requests, sleeps, lastSleep, preDelay, plain, prior, all429>>
    /\ UNCHANGED <<apiVars, storeVars, toolVars>>

NextBackoff ==
    \/ BoRequest
    \/ BoRequestFails
    \/ BoNot429
    \/ BoSleep
    \/ BoBadHeader
    \/ BoExhausted

SpecBackoff == InitBackoff /\ [][NextBackoff]_vars

\* Every step of the call is taken once it is enabled: requests.get has a
\* timeout and time.sleep returns after its (finite) delay.
FairBackoff == SpecBackoff /\ WF_vars(NextBackoff)

(***************************************************************************)
(* API service (src/api/app.py)                                            *)
(***************************************************************************)

\* Longest LLM planning response enumerated token by token.
MaxTextLen == 5

\* Largest number of documents a retrieval returns.
MaxRetrieved == 6

\* Largest number of course codes looked up by one request.
MaxCodes == 2

max_sources == 5
max_plan_codes == 20

\* The tokens the enumerated responses are made of.
EnumTokens == {LBrace, RBrace, Colon, Str("semesters"), Str("notes"), Word}

\* spec section 8, property 7: narrative, then a plan with one semester.
SamplePlan ==
    <<Word, Ws, LBrace, Str("semesters"), Colon, LBrack,
        LBrace, Str("name"), Colon, Str("Fall 2025"), Comma,
                Str("courses"), Colon, LBrack,
                    LBrace, Str("course_code"), Colon, Str("COMS 4111"), Comma,
                            Str("category"), Colon, Str("core"), Comma,
                            Str("credits"), Colon, Num(3), RBrace,
                RBrack, RBrace,
      RBrack, Comma, Str("notes"), Colon, LBrack, Str("note1"), RBrack, RBrace>>

\* A plan whose semester supplies its own total and whose courses leave
\* credits out or give 4.
SampleTotals ==
    <<Ws, Word, Ws, LBrace, Str("semesters"), Colon, LBrack,
        LBrace, Str("name"), Colon, Str("Spring 2026"), Comma,
                Str("total_credits"), Colon, Num(12), Comma,
                Str("courses"), Colon, LBrack,
                    LBrace, Str("course_code"), Colon, Str("COMS 4701"), Comma,
                            Str("category"), Colon, Str("core"), RBrace, Comma,
                    LBrace, Str("course_code"), Colon, Str("COMS 4995"), Comma,
                            Str("category"), Colon, Str("elective"), Comma,
                            Str("credits"), Colon, Num(4), RBrace,
                RBrack, RBrace,
      RBrack, RBrace>>

\* A plan in the field names the planning persona asks for (code, name).
SamplePersona ==
    <<LBrace, Str("semesters"), Colon, LBrack,
        LBrace, Str("name"), Colon, Str("Fall 2025"), Comma,
                Str("courses"), Colon, LBrack,
                    LBrace, Str("code"), Colon, Str("COMS 4111"), Comma,
                            Str("name"), Colon, Str("Databases"), RBrace,
                RBrack, RBrace,
      RBrack, RBrace>>

\* A semester without "name".
SampleNoName ==
    <<LBrace, Str("semesters"), Colon, LBrack,
        LBrace, Str("courses"), Colon, LBrack, RBrack, RBrace,
      RBrack, RBrace>>

\* A valid plan followed by narrative that holds a closing brace.
SampleTrailing ==
    <<LBrace, Str("semesters"), Colon, LBrack, RBrack, RBrace, Ws, Word, RBrace>>

\* An empty plan, a plan one level down, and notes that are no list.
SampleEmpty == <<Word, Ws, LBrace, Str("semesters"), Colon, LBrack, RBrack, RBrace>>
SampleNested ==
    <<LBrace, Str("plan"), Colon, LBrace, Str("semesters"), Colon, LBrack, RBrack, RBrace, RBrace>>
SampleNumberNotes ==
    <<LBrace, Str("semesters"), Colon, LBrack, RBrack, Comma,
      Str("notes"), Colon, LBrack, Num(1), RBrack, RBrace>>

Samples == {SamplePlan, SampleTotals, SamplePersona, SampleNoName, SampleTrailing,
            SampleEmpty, SampleNested, SampleNumberNotes}

\* What llm_interface.generate can return for a planning prompt.
Texts == UNION {[1..n -> EnumTokens] : n \in 0..MaxTextLen} \cup Samples

CANNED_ANSWER ==
    <<Tok("word", "I couldn't find relevant information in the knowledge base to answer your question. Please contact your academic advisor for assistance.", 0)>>

\* What llm_interface.generate can return for a Q&A prompt: an answer, or
\* the "Error: <message>" string of a failed provider call.
AnswerTexts == {<<Word>>, <<Tok("word", "Error: provider failure", 0)>>}

QA_DISCLAIMER ==
    "This information is for guidance only. Please verify with your official academic advisor."
PLAN_DISCLAIMER ==
    "This is an AI-generated plan. Please review with your academic advisor before making decisions."

\* raise HTTPException(status_code=...)
HttpError(status) == Resp(status, <<>>, 0, "", <<>>, VNull, <<>>, "")

StartupSteps ==
    <<"config", "embedder", "requirements_store", "professor_store",
      "requirements_retriever", "professor_retriever", "llm_interface">>

StepIndex(s) == CHOOSE i \in 1..Len(StartupSteps) : StartupSteps[i] = s
StepAfter(s) ==
    IF StepIndex(s) = Len(StartupSteps) THEN "ready" ELSE StartupSteps[StepIndex(s) + 1]

StartupRunning == st \in {StartupSteps[i] : i \in 1..Len(StartupSteps)}
StartupOver == st \in {"ready", "failed"}

\* A startup hook that builds the LLM interface first.
Assigned_Mut(global, step, current) ==
    IF st = step \/ (global = "llm_interface" /\ st = "embedder") THEN "set" ELSE current

Assigned(global, step, current) == IF st = step THEN "set" ELSE current

\* A guard for /ask that forgets the LLM interface.
AskUnavailable_Mut == requirements_retriever = "None"

\* if not requirements_retriever or not llm_interface
AskUnavailable == requirements_retriever = "None" \/ llm_interface = "None"

\* if not requirements_retriever or not professor_retriever or not llm_interface
PlanUnavailable ==
    requirements_retriever = "None" \/ professor_retriever = "None" \/ llm_interface = "None"

\* if not professor_retriever
ProfUnavailable == professor_retriever = "None"

\* status="healthy" if embedder and requirements_retriever else "initializing"
HealthStatus ==
    IF embedder = "set" /\ requirements_retriever = "set" THEN "healthy" ELSE "initializing"

Min2(a, b) == IF a <= b THEN a ELSE b

\* An /ask that calls the LLM even when nothing was retrieved.
AskNoDocs_Mut(n) == FALSE

\* if not retrieved_docs
AskNoDocs(n) == n = 0

globals == <<embedder, requirements_retriever, professor_retriever, llm_interface>>
locals == <<checked, usedReq, usedProf, usedLLM, docs, plan_text, parsed>>

BoIdle ==
    /\ copy = "ratings"
    /\ pc = "idle"
    /\ attempt = 0
    /\ delay = 0
    /\ r = NoResponse
    /\ requests = 0
    /\ sleeps = 0
    /\ lastSleep = 0
    /\ preDelay = 0
    /\ plain = TRUE
    /\ prior = TRUE
    /\ all429 = TRUE
    /\ outcome = [kind |-> "none", value |-> [kind |-> "none", payload |-> 0]]

\* The module as imported: every global is None, no request yet.
InitApi ==
    /\ st = "config"
    /\ embedder = "None"
    /\ requirements_retriever = "None"
    /\ professor_retriever = "None"
    /\ llm_interface = "None"
    /\ pydantic_strict \in BOOLEAN
    /\ route = "none"
    /\ hpc = "idle"
    /\ checked = FALSE
    /\ usedReq = 0
    /\ usedProf = 0
    /\ usedLLM = 0
    /\ docs = -1
    /\ plan_text = <<>>
    /\ parsed = NotParsed
    /\ response = NoResponseYet
    /\ BoIdle
    /\ StoreIdle
    /\ ToolsIdle

\* One statement of startup_event's try block succeeds.
StartupOk ==
    /\ StartupRunning
    /\ st' = StepAfter(st)
    /\ embedder' = Assigned("embedder", "embedder", embedder)
    /\ requirements_retriever' =
          Assigned("requirements_retriever", "requirements_retriever", requirements_retriever)
    /\ professor_retriever' =
          Assigned("professor_retriever", "professor_retriever", professor_retriever)
    /\ llm_interface' = Assigned("llm_interface", "llm_interface", llm_interface)
    /\ UNCHANGED <<pydantic_strict, route, hpc, locals, response, boVars, storeVars, toolVars>>

\* One statement raises: `except Exception` logs it and the hook returns.
StartupFail ==
    /\ StartupRunning
    /\ st' = "failed"
    /\ UNCHANGED <<globals, pydantic_strict, route, hpc, locals, response, boVars, storeVars, toolVars>>

Idle == StartupOver /\ hpc \in {"idle", "done"}

\* A handler that rebinds the global to None.
Kept_Mut(global) == "None"

\* No handler has a `global` statement or assigns one of the four names:
\* after any step of a handler the name is bound as before.
Kept(global) == global

HandlerKeepsGlobals ==
    /\ embedder' = Kept(embedder)
    /\ requirements_retriever' = Kept(requirements_retriever)
    /\ professor_retriever' = Kept(professor_retriever)
    /\ llm_interface' = Kept(llm_interface)

\* A POST request reaches its handler.
Begin ==
    /\ Idle
    /\ route' \in {"/ask", "/plan", "/professors"}
    /\ hpc' = "check"
    /\ checked' = FALSE
    /\ usedReq' = 0
    /\ usedProf' = 0
    /\ usedLLM' = 0
    /\ docs' = -1
    /\ plan_text' = <<>>
    /\ parsed' = NotParsed
    /\ response' = NoResponseYet
    /\ HandlerKeepsGlobals
    /\ UNCHANGED <<st, pydantic_strict, boVars, storeVars, toolVars>>

Reply(rt, resp) ==
    /\ route' = rt
    /\ hpc' = "done"
    /\ response' = resp

\* GET /
Root ==
    /\ Idle
    /\ Reply("/", Resp(200, <<>>, 0, "", <<>>, VNull, <<>>, ""))
    /\ checked' = FALSE /\ usedReq' = 0 /\ usedProf' = 0 /\ usedLLM' = 0
    /\ docs' = -1 /\ plan_text' = <<>> /\ parsed' = NotParsed
    /\ HandlerKeepsGlobals
    /\ UNCHANGED <<st, pydantic_strict, boVars, storeVars, toolVars>>

\* GET /health
Health ==
    /\ Idle
    /\ Reply("/health", Resp(200, <<>>, 0, "", <<>>, VNull, <<>>, HealthStatus))
    /\ checked' = FALSE /\ usedReq' = 0 /\ usedProf' = 0 /\ usedLLM' = 0
    /\ docs' = -1 /\ plan_text' = <<>> /\ parsed' = NotParsed
    /\ HandlerKeepsGlobals
    /\ UNCHANGED <<st, pydantic_strict, boVars, storeVars, toolVars>>

\* The handler ends with `resp`.
Finish(resp) ==
    /\ hpc' = "done"
    /\ response' = resp

\* The handler goes on to `next`.
Goto(next) ==
    /\ hpc' = next
    /\ UNCHANGED response

\* ask_question, lines 160-164: the 503 check.
AskCheck ==
    /\ route = "/ask" /\ hpc = "check"
    /\ IF AskUnavailable
       THEN Finish(HttpError(503)) /\ UNCHANGED checked
       ELSE Goto("retrieve") /\ checked' = TRUE
    /\ HandlerKeepsGlobals
    /\ UNCHANGED <<st, pydantic_strict, route, usedReq, usedProf, usedLLM,
                   docs, plan_text, parsed, boVars, storeVars, toolVars>>

\* ask_question, lines 175-188: retrieve_with_context; n = -1 stands for an
\* exception (caught by `except Exception`: 500), n = 0 for no documents.
AskRetrieve ==
    /\ route = "/ask" /\ hpc = "retrieve"
    /\ usedReq' = usedReq + 1
    /\ IF requirements_retriever = "None"
       THEN Finish(HttpError(500)) /\ UNCHANGED docs
       ELSE \E n \in -1..MaxRetrieved :
              IF n = -1 THEN Finish(HttpError(500)) /\ UNCHANGED docs
              ELSE IF AskNoDocs(n)
                   THEN /\ Finish(Resp(200, CANNED_ANSWER, 0, QA_DISCLAIMER, <<>>, VNull, <<>>, ""))
                        /\ docs' = n
                   ELSE Goto("generate") /\ docs' = n
    /\ HandlerKeepsGlobals
    /\ UNCHANGED <<st, pydantic_strict, route, checked, usedProf, usedLLM,
                   plan_text, parsed, boVars, storeVars, toolVars>>

\* ask_question, lines 191-219: prompt, llm_interface.generate, sources
\* (retrieved_docs[:5]); a Source that fails validation is a 500.
AskGenerate ==
    /\ route = "/ask" /\ hpc = "generate"
    /\ usedLLM' = usedLLM + 1
    /\ IF llm_interface = "None"
       THEN Finish(HttpError(500))
       ELSE \E a \in AnswerTexts, sources_ok \in BOOLEAN :
              IF sources_ok
              THEN Finish(Resp(200, a, Min2(docs, max_sources), QA_DISCLAIMER, <<>>, VNull, <<>>, ""))
              ELSE Finish(HttpError(500))
    /\ HandlerKeepsGlobals
    /\ UNCHANGED <<st, pydantic_strict, route, checked, usedReq, usedProf,
                   docs, plan_text, parsed, boVars, storeVars, toolVars>>

\* create_plan, lines 237-241: the 503 check.
PlanCheck ==
    /\ route = "/plan" /\ hpc = "check"
    /\ IF PlanUnavailable
       THEN Finish(HttpError(503)) /\ UNCHANGED checked
       ELSE Goto("retrieve") /\ checked' = TRUE
    /\ HandlerKeepsGlobals
    /\ UNCHANGED <<st, pydantic_strict, route, usedReq, usedProf, usedLLM,
                   docs, plan_text, parsed, boVars, storeVars, toolVars>>

\* create_plan, lines 248-284: requirements_retriever.retrieve(k=10), then
\* get_professors_for_course for up to 20 of the course codes found, then the
\* prompt; n = -1 and c = -1 stand for an exception of the respective call.
PlanGather ==
    /\ route = "/plan" /\ hpc = "retrieve"
    /\ usedReq' = usedReq + 1
    /\ IF requirements_retriever = "None"
       THEN Finish(HttpError(500)) /\ UNCHANGED usedProf
       ELSE \E n \in -1..1, c \in -1..MaxCodes :
              IF n = -1 THEN Finish(HttpError(500)) /\ UNCHANGED usedProf
              ELSE IF n = 0 \/ c = 0 THEN Goto("generate") /\ UNCHANGED usedProf
              ELSE IF c = -1 \/ professor_retriever = "None"
                   THEN Finish(HttpError(500)) /\ usedProf' = usedProf + 1
              ELSE Goto("generate") /\ usedProf' = usedProf + Min2(c, max_plan_codes)
    /\ HandlerKeepsGlobals
    /\ UNCHANGED <<st, pydantic_strict, route, checked, usedLLM, docs,
                   plan_text, parsed, boVars, storeVars, toolVars>>

\* create_plan, line 287: plan_text = llm_interface.generate(messages, max_tokens=3000)
PlanGenerate ==
    /\ route = "/plan" /\ hpc = "generate"
    /\ usedLLM' = usedLLM + 1
    /\ IF llm_interface = "None"
       THEN Finish(HttpError(500)) /\ UNCHANGED plan_text
       ELSE Goto("parse") /\ plan_text' \in Texts
    /\ HandlerKeepsGlobals
    /\ UNCHANGED <<st, pydantic_strict, route, checked, usedReq, usedProf,
                   docs, parsed, boVars, storeVars, toolVars>>

\* create_plan, line 290: parse_planning_response(plan_text); an exception
\* leaving it is caught by `except Exception`: 500.
PlanParse ==
    /\ route = "/plan" /\ hpc = "parse"
    /\ parsed' = parse_planning_response(plan_text, pydantic_strict)
    /\ IF parsed'.kind = "raise" THEN Finish(HttpError(500)) ELSE Goto("respond")
    /\ HandlerKeepsGlobals
    /\ UNCHANGED <<st, pydantic_strict, route, checked, usedReq, usedProf,
                   usedLLM, docs, plan_text, boVars, storeVars, toolVars>>

\* create_plan, lines 292-301: PlanResponse(...); a validation error is a 500.
PlanRespond ==
    /\ route = "/plan" /\ hpc = "respond"
    /\ IF PlanResponseValid(parsed, pydantic_strict)
       THEN Finish(Resp(200, <<>>, 0, PLAN_DISCLAIMER, parsed.semesters, parsed.notes,
                        parsed.explanation, ""))
       ELSE Finish(HttpError(500))
    /\ HandlerKeepsGlobals
    /\ UNCHANGED <<st, pydantic_strict, route, locals, boVars, storeVars, toolVars>>

\* query_professors, lines 315-319: the 503 check.
ProfCheck ==
    /\ route = "/professors" /\ hpc = "check"
    /\ IF ProfUnavailable
       THEN Finish(HttpError(503)) /\ UNCHANGED checked
       ELSE Goto("lookup") /\ checked' = TRUE
    /\ HandlerKeepsGlobals
    /\ UNCHANGED <<st, pydantic_strict, route, usedReq, usedProf, usedLLM,
                   docs, plan_text, parsed, boVars, storeVars, toolVars>>

\* query_professors, lines 321-341: one lookup per requested code; c = -1
\* stands for an exception (a lookup, a missing metadata key): 500.
ProfLookup ==
    /\ route = "/professors" /\ hpc = "lookup"
    /\ \E c \in -1..MaxCodes :
          IF c = 0 THEN Finish(Resp(200, <<>>, 0, "", <<>>, VNull, <<>>, "")) /\ UNCHANGED usedProf
          ELSE IF c = -1 \/ professor_retriever = "None"
               THEN Finish(HttpError(500)) /\ usedProf' = usedProf + 1
          ELSE Finish(Resp(200, <<>>, 0, "", <<>>, VNull, <<>>, "")) /\ usedProf' = usedProf + c
    /\ HandlerKeepsGlobals
    /\ UNCHANGED <<st, pydantic_strict, route, checked, usedReq, usedLLM,
                   docs, plan_text, parsed, boVars, storeVars, toolVars>>

NextApi ==
    \/ StartupOk
    \/ StartupFail
    \/ Begin
    \/ Root
    \/ Health
    \/ AskCheck
    \/ AskRetrieve
    \/ AskGenerate
    \/ PlanCheck
    \/ PlanGather
    \/ PlanGenerate
    \/ PlanParse
    \/ PlanRespond
    \/ ProfCheck
    \/ ProfLookup

SpecApi == InitApi /\ [][NextApi]_vars

(***************************************************************************)
(* Vector stores (src/rag/vector_store.py) and retrievers                  *)
(* (src/rag/retriever.py)                                                  *)
(*                                                                         *)
(* Embeddings are integer vectors of norm 5 or 10, so every cosine is an   *)
(* exact multiple of 0.04; similarities and distances are in hundredths.   *)
(***************************************************************************)

\* Most documents a store holds.
MaxDocs == 2

\* Most documents one add_documents call brings.
MaxBatch == 2

\* Largest k asked of a search or a retrieval.
MaxK == 2

Backends == {"chroma", "faiss"}

Embeddings == {<<3, 4>>, <<8, 6>>, <<-4, 3>>}

CourseCodes == {"COMS 4111", "COMS 4701"}
Spellings == {"COMS 4111", "COMS4111", "coms4111", "COMS 4701"}
Ratings == {3, 5}

\* min_score values asked of retrieve, in hundredths: 0.0 and 0.9.
MinScores == {0, 90}

Dot(a, b) == a[1] * b[1] + a[2] * b[2]
Norm(a) == CHOOSE n \in 0..(Dot(a, a)) : n * n = Dot(a, a)

\* Inner product of the L2-normalized vectors (the cosine), in hundredths.
Cos100(a, b) == (100 * Dot(a, b)) \div (Norm(a) * Norm(b))

\* A filter_dict: None, or {'course_code': value}.
NoFilter == [on |-> FALSE, course_code |-> ""]
FilterOn(code) == [on |-> TRUE, course_code |-> code]

\* doc['metadata'].get(key) == value for every key of the filter
Matches(doc, filter) == filter.on => doc.course_code = filter.course_code

\* The indices of S ordered by descending score, equal scores in index order.
RECURSIVE SortDesc(_, _)
SortDesc(S, score) ==
    IF S = {} THEN <<>>
    ELSE LET best == CHOOSE i \in S :
                 \A j \in S : score[i] > score[j] \/ (score[i] = score[j] /\ i <= j)
         IN  <<best>> \o SortDesc(S \ {best}, score)

Take(s, n) == SubSeq(s, 1, Min2(n, Len(s)))

NoSimilarity == [set |-> FALSE, v |-> 0]

\* One entry of a search result: {'text', 'metadata', 'distance', 'id'}.
Hit(doc, distance) ==
    [id |-> doc.id, course_code |-> doc.course_code, rating |-> doc.rating,
     distance |-> distance, similarity |-> NoSimilarity]

\* The cosine distance the collection reports (hnsw:space = cosine).
ChromaDistance(e, q) == 100 - Cos100(e, q)

\* ChromaVectorStore.search: collection.query(n_results=k, where=...) ranks
\* the documents that match the filter by ascending cosine distance.
ChromaSearch(idx, ds, q, k, filter) ==
    LET cand == {i \in 1..Len(ds) : Matches(ds[i], filter)}
        score == [i \in 1..Len(ds) |-> Cos100(idx[i], q)]
        order == Take(SortDesc(cand, score), k)
    IN  [i \in 1..Len(order) |-> Hit(ds[order[i]], ChromaDistance(idx[order[i]], q))]

\* 'distance': float(distance), where index.search returned inner products.
FaissDistance(e, q) == Cos100(e, q)

\* FAISSVectorStore.search: the min(2k, len(documents)) nearest by inner
\* product, then the metadata filter, stopping at k results.
FaissSearch(idx, ds, q, k, filter) ==
    LET score == [i \in 1..Len(idx) |-> Cos100(idx[i], q)]
        top == Take(SortDesc(1..Len(idx), score), Min2(k * 2, Len(ds)))
        kept == SelectSeq(top, LAMBDA i : i <= Len(ds) /\ Matches(ds[i], filter))
        order == Take(kept, k)
    IN  [i \in 1..Len(order) |-> Hit(ds[order[i]], FaissDistance(idx[order[i]], q))]

Search(b, idx, ds, q, k, filter) ==
    IF b = "chroma" THEN ChromaSearch(idx, ds, q, k, filter)
    ELSE FaissSearch(idx, ds, q, k, filter)

\* similarity = 1 - result['distance']
Similarity(hit) == 100 - hit.distance

\* RAGRetriever.retrieve: over-fetch 2k, keep the hits whose similarity is at
\* least min_score, stop at k, annotate them with the similarity.
Retrieve(b, idx, ds, q, k, filter, min_score) ==
    LET results == Search(b, idx, ds, q, k * 2, filter)
        kept == Take(SelectSeq(results, LAMBDA h : Similarity(h) >= min_score), k)
    IN  [i \in 1..Len(kept) |->
            [kept[i] EXCEPT !.similarity = [set |-> TRUE, v |-> Similarity(kept[i])]]]

\* embedder.encode_query(f"professors teaching {course_code}"): the model
\* maps different query strings to different vectors.
EncodeProfessorQuery(code) ==
    IF code = "COMS 4111" THEN <<3, 4>>
    ELSE IF code = "COMS4111" THEN <<8, 6>>
    ELSE IF code = "coms4111" THEN <<8, 6>>
    ELSE <<-4, 3>>

\* ProfessorRatingsRetriever.get_professors_for_course as the module exports
\* it (the class statement at line 236 rebinds the name bound at line 15):
\* filter on the code as given, over-fetch 2k, sort by rating, keep k.
get_professors_for_course(b, idx, ds, code, k) ==
    LET results == Search(b, idx, ds, EncodeProfessorQuery(code), k * 2, FilterOn(code))
        rating == [i \in 1..Len(results) |-> results[i].rating]
        order == Take(SortDesc(1..Len(results), rating), k)
    IN  [i \in 1..Len(order) |-> results[order[i]]]

Ids(items) == {items[i].id : i \in 1..Len(items)}
IdSeq(items) == [i \in 1..Len(items) |-> items[i].id]

\* ids = [f"doc_{i}" ...] / caller-supplied ids
DocId(n) == [p |-> "doc", n |-> n]
ExtId(n) == [p |-> "ext", n |-> n]

\* A store right after construction on an empty directory.
InitStore ==
    /\ backend \in Backends
    /\ index = <<>>
    /\ documents = <<>>
    /\ last = NoCall
    /\ disk = NoFiles
    /\ ApiIdle
    /\ BoIdle
    /\ ToolsIdle

BatchesOf(n) ==
    [1..n -> [emb : Embeddings, course_code : CourseCodes, rating : Ratings]]

\* The ids add_documents gives when the caller passes none.
DefaultIds(b, ds, n) ==
    IF b = "chroma" THEN [i \in 1..n |-> DocId(i - 1)]
    ELSE [i \in 1..n |-> DocId(Len(ds) + i - 1)]

\* The callers of a store pass ids on every add (the indexers) or on none.
IdsGiven(ds) == IF ds = <<>> THEN BOOLEAN ELSE {ds[1].id.p = "ext"}

Stored(batch, ids) ==
    [i \in 1..Len(batch) |->
        [id |-> ids[i], course_code |-> batch[i].course_code, rating |-> batch[i].rating]]

\* FAISSVectorStore._persist: write_index and pickle.dump of what the object
\* holds.
Persist(idx, ds) == [exists |-> TRUE, index |-> idx, documents |-> ds]

\* add_documents(texts, embeddings, metadatas, ids): the flat-file store
\* appends; the collection adds the records whose id is new (an add that
\* repeats an id is rejected whole by some chromadb releases and skips the
\* repeated records in others).
AddDocuments ==
    /\ \E n \in 1..Min2(MaxBatch, MaxDocs - Len(documents)) :
       \E batch \in BatchesOf(n), explicit \in IdsGiven(documents), reject \in BOOLEAN :
           LET ids == IF explicit
                      THEN [i \in 1..n |-> ExtId(Len(documents) + i)]
                      ELSE DefaultIds(backend, documents, n)
               new == Stored(batch, ids)
               fresh == {i \in 1..n : ids[i] \notin Ids(documents)}
               keep == IF backend = "faiss" THEN 1..n
                       ELSE IF reject /\ fresh # 1..n THEN {}
                       ELSE fresh
               order == SortDesc(keep, [i \in 1..n |-> 0 - i])
           IN  /\ documents' = documents \o [i \in 1..Len(order) |-> new[order[i]]]
               /\ index' = index \o [i \in 1..Len(order) |-> batch[order[i]].emb]
               /\ last' = Call("add", <<3, 4>>, 0, "", 0, keep # 1..n, <<>>)
               /\ disk' = IF backend = "faiss" THEN Persist(index', documents') ELSE disk
    /\ UNCHANGED <<backend, apiVars, boVars, toolVars>>

\* vector_store.search(query_embedding, k, filter_dict)
SearchCall ==
    /\ \E q \in Embeddings, k \in 1..MaxK, f \in {NoFilter} \cup {FilterOn(c) : c \in CourseCodes} :
        last' = Call("search", q, k, f.course_code, 0, FALSE,
                     Search(backend, index, documents, q, k, f))
    /\ UNCHANGED <<backend, index, documents, disk, apiVars, boVars, toolVars>>

\* RAGRetriever.retrieve(query, k, min_score=...)
RetrieveCall ==
    /\ \E q \in Embeddings, k \in 1..MaxK, m \in MinScores :
        last' = Call("retrieve", q, k, "", m, FALSE,
                     Retrieve(backend, index, documents, q, k, NoFilter, m))
    /\ UNCHANGED <<backend, index, documents, disk, apiVars, boVars, toolVars>>

\* ProfessorRatingsRetriever.get_professors_for_course(course_code, k)
ProfessorsCall ==
    /\ \E code \in Spellings, k \in 1..MaxK :
        last' = Call("professors", EncodeProfessorQuery(code), k, code, 0, FALSE,
                     get_professors_for_course(backend, index, documents, code, k))
    /\ UNCHANGED <<backend, index, documents, disk, apiVars, boVars, toolVars>>

\* FAISSVectorStore.delete_collection: the two files are unlinked; the
\* object's index and documents are not touched.
DeleteCollection ==
    /\ backend = "faiss"
    /\ documents # <<>>
    /\ disk' = NoFiles
    /\ last' = Call("delete", <<3, 4>>, 0, "", 0, FALSE, <<>>)
    /\ UNCHANGED <<backend, index, documents, apiVars, boVars, toolVars>>

\* FAISSVectorStore.__init__ on the same directory: read_index and
\* pickle.load when the index file exists, else an empty index.
Reopen ==
    /\ backend = "faiss"
    /\ last.op # "reopen"
    /\ index' = IF disk.exists THEN disk.index ELSE <<>>
    /\ documents' = IF disk.exists THEN disk.documents ELSE <<>>
    /\ last' = Call("reopen", <<3, 4>>, 0, "", 0, FALSE, <<>>)
    /\ UNCHANGED <<backend, disk, apiVars, boVars, toolVars>>

NextStore ==
    \/ AddDocuments
    \/ SearchCall
    \/ RetrieveCall
    \/ ProfessorsCall
    \/ DeleteCollection
    \/ Reopen

SpecStore == InitStore /\ [][NextStore]_vars

(***************************************************************************)
(* get_with_backoff: claims C6 - C9                                        *)
(***************************************************************************)

\* The call has ended.
BoTerminated == pc \in {"returned", "raised"}

\* The last response is a success that followed only 429s without a
\* Retry-After header.
BoSuccessAfterPlain429s ==
    /\ pc \in {"got", "returned"}
    /\ prior
    /\ r.status # 429
    /\ ~RaisesForStatus(r.status)

\* C6: in both copies, with retries=10 and base_delay=0.5 s: while every
\* response so far is a 429 without Retry-After, the i-th sleep lasts
\* 0.5 * 2^(i-1) seconds; when a success follows n such 429s (n in 0..9) the
\* call has made exactly n+1 requests and n sleeps and returns that
\* response's payload.
C6_BackoffSequence ==
    /\ (plain /\ sleeps >= 1) => lastSleep = base_delay * 2^(sleeps - 1)
    /\ (plain /\ pc = "loop") => (sleeps = requests /\ requests <= retries)
    /\ BoSuccessAfterPlain429s =>
          /\ requests = sleeps + 1
          /\ sleeps \in 0..(retries - 1)
          /\ sleeps >= 1 => lastSleep = base_delay * 2^(sleeps - 1)
          /\ pc = "returned" =>
                /\ outcome.kind = "return"
                /\ outcome.value.payload = r.payload
                /\ outcome.value.kind = (IF copy = "ratings" THEN "json" ELSE "response")

\* C6 witness: nine 429s without Retry-After, then a success, returned after
\* the ninth sleep of 128 s.
C6_Witness ==
    /\ pc = "returned"
    /\ prior
    /\ requests = 10
    /\ sleeps = 9
    /\ lastSleep = 128000

\* C7 (as claimed): the call never issues more than 10 requests, and when
\* every response is a 429 it ends only after exactly 10 requests, with the
\* rate-limit error.
C7_Claim ==
    /\ requests <= retries
    /\ (BoTerminated /\ all429) =>
          (requests = retries /\ outcome.kind = "raise" /\ outcome.value.kind = "TooMany429")

\* C7, the part the code keeps: never more than 10 requests, and the
\* rate-limit error is raised only after ten 429 responses.
C7_Bounded ==
    /\ requests <= retries
    /\ attempt = requests
    /\ (outcome.value.kind = "TooMany429") => (all429 /\ requests = retries /\ sleeps = retries)

\* C7, termination: under FairBackoff every call ends.
C7_Terminates == <>BoTerminated

\* C8: a response with an error status other than 429 makes the call raise
\* at once: the next step raises HTTPError with no request and no sleep in
\* between, and nothing follows the raise.
C8_ErrorRaisesAtOnce ==
    [][ /\ (pc = "got" /\ r.status # 429 /\ r.status >= 400)
            => (/\ pc' = "raised"
                /\ outcome'.kind = "raise"
                /\ outcome'.value.kind = "HTTPError"
                /\ requests' = requests
                /\ sleeps' = sleeps)
        /\ pc = "raised" => UNCHANGED vars ]_vars

\* C8 witness: the error status arrives on the tenth attempt, after nine sleeps.
C8_Witness ==
    /\ pc = "raised"
    /\ outcome.value.kind = "HTTPError"
    /\ r.status = 404
    /\ requests = retries
    /\ sleeps = retries - 1

\* The state right after a sleep: `r` is still the 429 that caused it.
BoJustSlept == sleeps >= 1 /\ (pc = "loop" \/ outcome.value.kind = "TooMany429")

PostRoutes == {"/ask", "/plan", "/professors"}

\* C1: whatever startup_event left behind, /ask answers 503 when the
\* requirements retriever or the LLM interface is None, /plan when either
\* retriever or the LLM interface is None, /professors when the professor
\* retriever is None; and a handler calls no retriever and no LLM before its
\* check has passed.
C1_Unavailable503 ==
    /\ (route = "/ask" /\ hpc = "done"
          /\ (requirements_retriever = "None" \/ llm_interface = "None"))
        => (response.status = 503 /\ usedReq = 0 /\ usedProf = 0 /\ usedLLM = 0)
    /\ (route = "/plan" /\ hpc = "done"
          /\ (requirements_retriever = "None" \/ professor_retriever = "None"
                \/ llm_interface = "None"))
        => (response.status = 503 /\ usedReq = 0 /\ usedProf = 0 /\ usedLLM = 0)
    /\ (route = "/professors" /\ hpc = "done" /\ professor_retriever = "None")
        => (response.status = 503 /\ usedReq = 0 /\ usedProf = 0 /\ usedLLM = 0)
    /\ (route \in PostRoutes /\ ~checked)
        => (usedReq = 0 /\ usedProf = 0 /\ usedLLM = 0)
    /\ (route \in PostRoutes /\ hpc # "idle") => StartupOver

\* C1 witness: the hook failed while building the LLM interface (both
\* retrievers exist) and /ask answered 503.
C1_Witness ==
    /\ st = "failed"
    /\ requirements_retriever = "set"
    /\ professor_retriever = "set"
    /\ llm_interface = "None"
    /\ route = "/ask"
    /\ hpc = "done"
    /\ response.status = 503

\* C2: /ask on an initialized service whose retrieval returned no document
\* answers 200 with the canned answer, no sources and the Q&A disclaimer,
\* and made no call to the LLM.
C2_EmptyRetrieval ==
    (route = "/ask" /\ docs = 0) =>
        /\ hpc = "done"
        /\ response.status = 200
        /\ response.answer = CANNED_ANSWER
        /\ response.n_sources = 0
        /\ response.disclaimer = QA_DISCLAIMER
        /\ usedLLM = 0

\* C2 witness: such a request was answered.
C2_Witness ==
    /\ st = "ready"
    /\ route = "/ask"
    /\ hpc = "done"
    /\ checked
    /\ usedReq = 1
    /\ docs = 0
    /\ response.status = 200

\* Some object inside the decoded value has the key.
RECURSIVE HasKeyDeep(_, _)
HasKeyDeep(v, key) ==
    /\ v.k \in {"obj", "arr"}
    /\ \/ (v.k = "obj" /\ \E i \in 1..Len(v.keys) : v.keys[i] = key)
       \/ \E i \in 1..Len(v.vals) : HasKeyDeep(v.vals[i], key)

\* The span the search locates (first "{" to last "}").
Located(t) == SubSeq(t, SearchStart(t), SearchEnd(t))

\* The text holds no JSON object with a "semesters" key, or the located
\* object is not valid JSON.
NoSemestersObject(t) ==
    \/ ~SearchFound(t)
    \/ ~json_loads(Located(t)).ok
    \/ ~HasKeyDeep(json_loads(Located(t)).v, "semesters")

\* The search finds nothing, or what it finds is not valid JSON.
NothingLocated(t) == ~SearchFound(t) \/ ~json_loads(Located(t)).ok

FallbackNotes == VArr(<<VStr(FAILURE_NOTE)>>)

\* /plan has parsed the LLM's text.
PlanParsed == route = "/plan" /\ parsed.kind # "none"

Unstructured200 ==
    /\ parsed.kind = "fallback"
    /\ parsed.semesters = <<>>
    /\ parsed.notes = FallbackNotes
    /\ parsed.explanation = plan_text
    /\ hpc \in {"respond", "done"}
    /\ hpc = "done" =>
          /\ response.status = 200
          /\ response.semesters = <<>>
          /\ response.notes = FallbackNotes
          /\ response.explanation = plan_text

\* C10 (as claimed): when the LLM text holds no JSON object with a
\* "semesters" key, or the located object is not valid JSON, the parse gives
\* no semesters, exactly one failure note and the raw text as explanation,
\* and /plan answers 200 with that plan.
C10_Claim == (PlanParsed /\ NoSemestersObject(plan_text)) => Unstructured200

\* C10, the part the code keeps: the same when the search for
\* {..."semesters"...} finds nothing or finds a span that is not valid JSON.
C10_NothingLocated == (PlanParsed /\ NothingLocated(plan_text)) => Unstructured200

\* A /plan answered 200 with the unstructured plan.
C10_FallbackReached ==
    /\ PlanParsed
    /\ hpc = "done"
    /\ SearchFound(plan_text)
    /\ NothingLocated(plan_text)
    /\ response.status = 200
    /\ response.explanation = plan_text


(***************************************************************************)
(* Vector stores and retrievers: claims C3, C4, C5                         *)
(***************************************************************************)

NoFilterGiven == last.code = ""

\* What retrieve gives on the present store for the last call's query and k
\* when min_score is 0.0.
RetrievedAtZero == Retrieve(backend, index, documents, last.q, last.k, NoFilter, 0)

\* C3: on either backend, every id that retrieve(min_score = 0.9) returns is
\* among the ids that retrieve(min_score = 0.0) returns for the same query
\* and k on the same store, and every item returned at 0.9 has a similarity
\* of at least 0.9.
C3_Claim ==
    (last.op = "retrieve" /\ last.min_score = 90) =>
        /\ Ids(last.items) \subseteq Ids(RetrievedAtZero)
        /\ \A i \in 1..Len(last.items) :
               last.items[i].similarity.set /\ last.items[i].similarity.v >= 90

\* The same statement for the collection-backed store alone.
C3_OnChroma == backend = "chroma" => C3_Claim

\* A retrieval at 0.9 that returned something.
C3_Reached == last.op = "retrieve" /\ last.min_score = 90 /\ Len(last.items) > 0

Canonical == "COMS 4111"
CanonicalSpellings == {"COMS 4111", "COMS4111", "coms4111"}

NonIncreasingRatings(items) ==
    \A i \in 1..Len(items), j \in 1..Len(items) :
        i < j => items[i].rating >= items[j].rating

\* C4: get_professors_for_course of the exported ProfessorRatingsRetriever
\* returns, for "COMS 4111", "COMS4111" and "coms4111", the same records in
\* the same order (descending rating) as for "COMS 4111".
C4_Claim ==
    (last.op = "professors" /\ last.code \in CanonicalSpellings) =>
        /\ IdSeq(last.items) =
               IdSeq(get_professors_for_course(backend, index, documents, Canonical, last.k))
        /\ NonIncreasingRatings(last.items)

\* The part of C4 that does not depend on the spelling: the order.
C4_Sorted == last.op = "professors" => NonIncreasingRatings(last.items)

\* A lookup under the spelling the records are stored with finds some.
C4_Reached == last.op = "professors" /\ last.code = Canonical /\ Len(last.items) > 0

HitOf(items, id) == {i \in 1..Len(items) : items[i].id = id}

\* C5: on either backend, a search (no filter, k at least the store's size)
\* with a query embedding identical to a stored embedding returns that
\* document with distance 0, and retrieve reports similarity 1 for it.
C5_Claim ==
    \A d \in 1..Len(documents) :
        (index[d] = last.q /\ NoFilterGiven /\ last.k >= Len(documents)) =>
            /\ last.op = "search" =>
                   \E i \in HitOf(last.items, documents[d].id) : last.items[i].distance = 0
            /\ (last.op = "retrieve" /\ last.min_score = 0) =>
                   \E i \in HitOf(last.items, documents[d].id) :
                       last.items[i].similarity = [set |-> TRUE, v |-> 100]

\* The same statement for the collection-backed store alone.
C5_OnChroma == backend = "chroma" => C5_Claim

\* A search whose query is a stored embedding.
C5_Reached ==
    /\ last.op = "search" /\ NoFilterGiven /\ last.k >= Len(documents)
    /\ \E d \in 1..Len(documents) : index[d] = last.q


(***************************************************************************)
(* parse_planning_response: claim C11                                      *)
(***************************************************************************)

Braces(t) == {i \in 1..Len(t) : t[i].k = "lbrace"}

\* The text up to its first "{" and the text from there on.
NarrativePart(t) == SubSeq(t, 1, MinOf(Braces(t)) - 1)
JsonPart(t) == SubSeq(t, MinOf(Braces(t)), Len(t))

IsNarrative(t) == \A i \in 1..Len(t) : t[i].k \in {"word", "ws"}

\* A JSON course / semester / plan as the Course, Semester and PlanResponse
\* models take it under every pydantic release.
ValidCourse(cd) ==
    /\ cd.k = "obj"
    /\ Has(cd, "course_code") /\ Get(cd, "course_code", VNull).k = "str"
    /\ Has(cd, "category") /\ Get(cd, "category", VNull).k = "str"
    /\ Has(cd, "credits") => Get(cd, "credits", VNull).k = "num"
    /\ Get(cd, "course_name", VNull).k \in {"str", "null"}
    /\ Get(cd, "prof", VNull).k \in {"str", "null"}
    /\ Get(cd, "rating", VNull).k \in {"num", "null"}

ValidSemester(sd) ==
    /\ sd.k = "obj"
    /\ Has(sd, "name") /\ Get(sd, "name", VNull).k = "str"
    /\ Get(sd, "courses", VArr(<<>>)).k = "arr"
    /\ \A i \in 1..Len(Get(sd, "courses", VArr(<<>>)).vals) :
           ValidCourse(Get(sd, "courses", VArr(<<>>)).vals[i])

ValidPlan(v) ==
    /\ v.k = "obj"
    /\ Has(v, "semesters") /\ Get(v, "semesters", VNull).k = "arr"
    /\ \A i \in 1..Len(Get(v, "semesters", VNull).vals) :
           ValidSemester(Get(v, "semesters", VNull).vals[i])
    /\ Has(v, "notes") =>
           /\ Get(v, "notes", VNull).k = "arr"
           /\ \A i \in 1..Len(Get(v, "notes", VNull).vals) :
                  Get(v, "notes", VNull).vals[i].k = "str"

\* Narrative text followed by a valid JSON plan.
NarrativeThenPlan(t) ==
    /\ Braces(t) # {}
    /\ IsNarrative(NarrativePart(t))
    /\ json_loads(JsonPart(t)).ok
    /\ ValidPlan(json_loads(JsonPart(t)).v)

PlanOf(t) == json_loads(JsonPart(t)).v

\* The credits the courses of a JSON semester add up to, 3 for a course
\* that names none.
RECURSIVE CreditsOf(_)
CreditsOf(cds) ==
    IF cds = <<>> THEN 0
    ELSE (IF Has(cds[1], "credits") THEN Get(cds[1], "credits", VNull).n ELSE 3)
         + CreditsOf(Tail(cds))

MaxWords == 7

\* Largest chunk_size a processor is built with.
MaxChunkSize == 3

\* The words after which re.split(r'(?<=[.!?])\s+', text) cuts: a sentence
\* end followed by whitespace, and the end of the text.
SentenceEnds(t) == {i \in 1..Len(t) : t[i] /\ i < Len(t)} \cup {Len(t)}

\* _split_into_sentences(text)
RECURSIVE SplitFrom(_, _)
SplitFrom(t, from) ==
    IF from > Len(t) THEN <<>>
    ELSE LET to == MinOf({e \in SentenceEnds(t) : e >= from})
         IN  <<[from |-> from, to |-> to]>> \o SplitFrom(t, to + 1)

split_into_sentences(t) == SplitFrom(t, 1)

\* len(sentence.split())
WordCount(sentence) == sentence.to - sentence.from + 1

RECURSIVE LengthOf(_, _)
LengthOf(sents, chunk) ==
    IF chunk = <<>> THEN 0
    ELSE WordCount(sents[chunk[1]]) + LengthOf(sents, Tail(chunk))

\* An overlap that always carries the last sentence over.
Overlap_Mut(sents, chunk, room) == <<chunk[Len(chunk)]>>

\* for s in reversed(current_chunk): the longest run of trailing sentences
\* whose words fit in chunk_overlap.
RECURSIVE Overlap(_, _, _)
Overlap(sents, chunk, room) ==
    IF chunk = <<>> THEN <<>>
    ELSE LET s == chunk[Len(chunk)] IN
         IF WordCount(sents[s]) <= room
         THEN Append(Overlap(sents, SubSeq(chunk, 1, Len(chunk) - 1),
                             room - WordCount(sents[s])), s)
         ELSE <<>>

\* if current_length + sentence_length > self.chunk_size and current_chunk
MustClose(length, sentence_length, size, chunk) ==
    length + sentence_length > size /\ chunk # <<>>

sentences == split_into_sentences(text)

Texts_Chunk == UNION {[1..n -> BOOLEAN] : n \in 0..MaxWords}

\* A processor with chunk_size > chunk_overlap >= 0 is handed a text.
InitChunk ==
    /\ chunk_size \in 1..MaxChunkSize
    /\ chunk_overlap \in 0..(chunk_size - 1)
    /\ text \in Texts_Chunk
    /\ cpc = "loop"
    /\ next_sentence = 1
    /\ current_chunk = <<>>
    /\ current_length = 0
    /\ chunks = <<>>
    /\ overlaps = <<>>
    /\ BoIdle
    /\ ApiIdle
    /\ StoreIdle
    /\ FnIdle
    /\ ScriptIdle

\* A chunker that replaces the last chunk instead of adding one.
Emit_Mut(list, chunk) ==
    IF list = <<>> THEN <<chunk>> ELSE [list EXCEPT ![Len(list)] = chunk]

\* chunks.append(' '.join(current_chunk))
Emit(list, chunk) == Append(list, chunk)

\* One pass of `for sentence in sentences`.
ChunkSentence ==
    /\ cpc = "loop"
    /\ text # <<>>
    /\ next_sentence <= Len(sentences)
    /\ LET sentence_length == WordCount(sentences[next_sentence])
           close == MustClose(current_length, sentence_length, chunk_size, current_chunk)
           overlap_words == Overlap(sentences, current_chunk, chunk_overlap)
           kept == IF close THEN overlap_words ELSE current_chunk
       IN  /\ chunks' = IF close THEN Emit(chunks, current_chunk) ELSE chunks
           /\ overlaps' = IF close THEN Append(overlaps, overlap_words) ELSE overlaps
           /\ current_chunk' = Append(kept, next_sentence)
           /\ current_length' = LengthOf(sentences, kept) + sentence_length
    /\ next_sentence' = next_sentence + 1
    /\ UNCHANGED <<chunk_size, chunk_overlap, text, cpc, boVars, apiVars, storeVars, fnVars, scriptVars>>

\* `if not text: return []`, and after the loop the last chunk is added.
ChunkReturn ==
    /\ cpc = "loop"
    /\ text = <<>> \/ next_sentence > Len(sentences)
    /\ chunks' = IF current_chunk # <<>> THEN Emit(chunks, current_chunk) ELSE chunks
    /\ cpc' = "done"
    /\ UNCHANGED <<chunk_size, chunk_overlap, text, next_sentence, current_chunk,
                   current_length, overlaps, boVars, apiVars, storeVars, fnVars, scriptVars>>

NextChunk ==
    \/ ChunkSentence
    \/ ChunkReturn

SpecChunk == InitChunk /\ [][NextChunk]_vars

(***************************************************************************)
(* chunk_text: claims C12, C13                                             *)
(***************************************************************************)

\* The word positions of a chunk, in order: ' '.join(current_chunk).
RECURSIVE WordsOf(_, _)
WordsOf(sents, chunk) ==
    IF chunk = <<>> THEN <<>>
    ELSE [i \in 1..WordCount(sents[chunk[1]]) |-> sents[chunk[1]].from + i - 1]
         \o WordsOf(sents, Tail(chunk))

ChunkWords(chunk) == Len(WordsOf(sentences, chunk))

\* C12: with chunk_size > chunk_overlap >= 0, every chunk except possibly
\* the last has at most chunk_size words.
C12_Claim ==
    cpc = "done" =>
        \A i \in 1..(Len(chunks) - 1) : ChunkWords(chunks[i]) <= chunk_size

\* The same for texts none of whose sentences is longer than chunk_size.
C12_ShortSentences ==
    (\A i \in 1..Len(sentences) : WordCount(sentences[i]) <= chunk_size) => C12_Claim

\* What does hold: a chunk that is not the last and is longer than
\* chunk_size is one sentence preceded by at most chunk_overlap words.
C12_Bounded ==
    cpc = "done" =>
        \A i \in 1..(Len(chunks) - 1) :
            \/ ChunkWords(chunks[i]) <= chunk_size
            \/ ChunkWords(SubSeq(chunks[i], 1, Len(chunks[i]) - 1)) <= chunk_overlap

\* A text that was cut into two chunks or more.
C12_Reached == cpc = "done" /\ Len(chunks) >= 2

\* The chunk that follows closed chunk i: the next closed one, or the one
\* being gathered.
FollowerOf(i) == IF i < Len(chunks) THEN chunks[i + 1] ELSE current_chunk

IsSuffix(a, b) == Len(a) <= Len(b) /\ SubSeq(b, Len(b) - Len(a) + 1, Len(b)) = a
IsPrefix(a, b) == Len(a) <= Len(b) /\ SubSeq(b, 1, Len(a)) = a

\* C13: for every two consecutive chunks, the overlap carried over is a
\* suffix of the closed chunk made of whole sentences totalling at most
\* chunk_overlap words (possibly none), and those words are exactly the
\* leading words of the next chunk, placed before the sentence that did not
\* fit.
C13_Overlap ==
    cpc = "loop" =>
        /\ Len(overlaps) = Len(chunks)
        /\ \A i \in 1..Len(chunks) :
            LET closed == chunks[i]
                carried == overlaps[i]
                follower == FollowerOf(i)
                misfit == closed[Len(closed)] + 1
            IN  /\ IsSuffix(carried, closed)
                /\ IsSuffix(WordsOf(sentences, carried), WordsOf(sentences, closed))
                /\ Len(WordsOf(sentences, carried)) <= chunk_overlap
                /\ IsPrefix(WordsOf(sentences, carried), WordsOf(sentences, follower))
                /\ Len(follower) > Len(carried)
                /\ follower[Len(carried) + 1] = misfit

\* A chunk was closed and words were carried over into the next one.
C13_Witness ==
    /\ cpc = "loop"
    /\ Len(chunks) >= 1
    /\ overlaps[Len(chunks)] # <<>>
    /\ IsPrefix(WordsOf(sentences, overlaps[Len(chunks)]), WordsOf(sentences, current_chunk))


(***************************************************************************)
(* DocumentProcessor._extract_course_codes                                 *)
(*                                                                         *)
(* A text is a sequence of pieces written one after the other: a run of    *)
(* four capitals, a run of four digits, a run of whitespace, or some other *)
(* word.  Pieces that are not whitespace and touch form one longer word.   *)
(***************************************************************************)

\* Longest text enumerated piece by piece.
MaxPieces == 5

Caps(d) == [k |-> "caps", s |-> d]
Digits(n) == [k |-> "digits", s |-> n]
Blank == [k |-> "blank", s |-> ""]
Other == [k |-> "other", s |-> "and"]

Pieces == {Caps("COMS"), Digits("4111"), Digits("4701"), Blank, Other}

\* "COMS4111 and COMS 4701" and "COMS4111 COMS  4111"
SampleTwoCodes ==
    <<Caps("COMS"), Digits("4111"), Blank, Other, Blank, Caps("COMS"), Blank, Digits("4701")>>
SampleTwice ==
    <<Caps("COMS"), Digits("4111"), Blank, Caps("COMS"), Blank, Blank, Digits("4111")>>

CodeTexts == UNION {[1..n -> Pieces] : n \in 0..MaxPieces} \cup {SampleTwoCodes, SampleTwice}

\* \b holds between pieces i and i+1 when exactly one side is a word piece.
WordPiece(t, i) == i >= 1 /\ i <= Len(t) /\ t[i].k # "blank"
BoundaryAfter(t, i) == WordPiece(t, i) # WordPiece(t, i + 1)

RECURSIVE SkipBlanks(_, _)
SkipBlanks(t, i) == IF i <= Len(t) /\ t[i].k = "blank" THEN SkipBlanks(t, i + 1) ELSE i

\* r'\b[A-Z]{4}\s*\d{4}\b' matches from piece i on.
MatchesAt(t, i) ==
    /\ t[i].k = "caps"
    /\ BoundaryAfter(t, i - 1)
    /\ LET d == SkipBlanks(t, i + 1) IN
         /\ d <= Len(t)
         /\ t[d].k = "digits"
         /\ BoundaryAfter(t, d)

\* A code as a string: department, the whitespace between, number.
Code(dept, blanks, number) == [dept |-> dept, blanks |-> blanks, number |-> number]

\* The text of the match that starts at piece i.
MatchAt(t, i) ==
    LET d == SkipBlanks(t, i + 1) IN Code(t[i].s, d - i - 1, t[d].s)

\* re.sub(r'\s+', ' ', code): every run of whitespace becomes one space.
NormalizeSpacing(code) ==
    Code(code.dept, IF code.blanks >= 1 THEN 1 ELSE 0, code.number)

\* re.findall, the normalization and list(set(...)).
extract_course_codes(t) ==
    {NormalizeSpacing(MatchAt(t, i)) : i \in {j \in 1..Len(t) : MatchesAt(t, j)}}

InitExtract ==
    /\ fn = "_extract_course_codes"
    /\ arg \in CodeTexts
    /\ res = {}
    /\ returned = FALSE
    /\ BoIdle
    /\ ApiIdle
    /\ StoreIdle
    /\ ChunkIdle
    /\ ScriptIdle

ExtractCall ==
    /\ fn = "_extract_course_codes"
    /\ ~returned
    /\ res' = extract_course_codes(arg)
    /\ returned' = TRUE
    /\ UNCHANGED <<fn, arg, boVars, apiVars, storeVars, chunkVars, scriptVars>>

NextExtract == ExtractCall

SpecExtract == InitExtract /\ [][NextExtract]_vars

\* The codes written in a text, department and number, whatever the spacing.
Written(t) ==
    {<<t[i].s, t[SkipBlanks(t, i + 1)].s>> : i \in {j \in 1..Len(t) : MatchesAt(t, j)}}

\* C14: the codes come back as "DEPT ####" with one space whatever the
\* spacing in the text, one per code written: "COMS4111 and COMS 4701"
\* gives exactly {"COMS 4111", "COMS 4701"}, and "COMS4111" together with
\* "COMS 4111" gives one code.
C14_Claim ==
    (fn = "_extract_course_codes" /\ returned) =>
        /\ res = {Code(w[1], 1, w[2]) : w \in Written(arg)}
        /\ arg = SampleTwoCodes => res = {Code("COMS", 1, "4111"), Code("COMS", 1, "4701")}
        /\ arg = SampleTwice => Cardinality(res) = 1

\* What does hold: a code written with whitespace comes back with one
\* space, and no code comes back with more than one.
C14_SpacedOnly ==
    (fn = "_extract_course_codes" /\ returned) =>
        /\ \A i \in 1..Len(arg) :
               (MatchesAt(arg, i) /\ MatchAt(arg, i).blanks >= 1) =>
                   Code(MatchAt(arg, i).dept, 1, MatchAt(arg, i).number) \in res
        /\ \A c \in res : c.blanks <= 1

\* The extractor ran on "COMS4111 and COMS 4701".
C14_Reached == fn = "_extract_course_codes" /\ returned /\ arg = SampleTwoCodes


(***************************************************************************)
(* ProfessorRatingsRetriever.normalize_course_code (src/rag/retriever.py)  *)
(*                                                                         *)
(* A string is a sequence of characters: "c" a lower-case letter, "C" a    *)
(* capital, "4" a digit, " " a space.                                      *)
(***************************************************************************)

\* Longest string enumerated character by character.
MaxCodeLen == 7

Chars == {"c", "C", "4", " "}

\* "coms4995", "COMS 4995", "COMSW4995" (five letters), "COMS49951"
SampleLower == <<"c", "c", "c", "c", "4", "4", "4", "4">>
SampleSpaced == <<"C", "C", "C", "C", " ", "4", "4", "4", "4">>
SampleFiveLetters == <<"C", "C", "C", "C", "C", "4", "4", "4", "4">>
SampleFiveDigits == <<"C", "C", "C", "C", "4", "4", "4", "4", "4">>

CodeStrings ==
    UNION {[1..n -> Chars] : n \in 0..MaxCodeLen}
        \cup {SampleLower, SampleSpaced, SampleFiveLetters, SampleFiveDigits}

\* The class statements of the module that bind the name
\* ProfessorRatingsRetriever, in the order they run, with their methods.
ClassStatements ==
    <<[line |-> 15,
       methods |-> {"__init__", "normalize_course_code", "get_professors_for_course"}],
      [line |-> 236,
       methods |-> {"__init__", "get_professors_for_course", "get_best_professor_for_course",
                    "get_professors_for_courses", "format_professor_info"}]>>

\* The class a client gets by `from ...retriever import ProfessorRatingsRetriever`:
\* the binding the last statement made.
Exported == ClassStatements[Len(ClassStatements)]

\* course_code.replace(" ", "").upper()
Clean(x) ==
    LET kept == SelectSeq(x, LAMBDA c : c # " ")
    IN  [i \in 1..Len(kept) |-> IF kept[i] = "c" THEN "C" ELSE kept[i]]

\* The number of leading capitals of a string.
RECURSIVE LeadingCaps(_)
LeadingCaps(x) == IF x # <<>> /\ x[1] = "C" THEN 1 + LeadingCaps(Tail(x)) ELSE 0

\* re.match(r"([A-Z]{2,4})(\d{4})", clean): two to four capitals at the
\* start, followed by four digits; what comes after them is not looked at.
MatchesCode(clean) ==
    LET n == LeadingCaps(clean) IN
    /\ n >= 2 /\ n <= 4
    /\ Len(clean) >= n + 4
    /\ \A i \in (n + 1)..(n + 4) : clean[i] = "4"

\* normalize_course_code as the class statement at line 15 defines it.
normalize_course_code(x) ==
    LET clean == Clean(x)
        n == LeadingCaps(clean)
    IN  IF MatchesCode(clean)
        THEN SubSeq(clean, 1, n) \o <<" ">> \o SubSeq(clean, n + 1, n + 4)
        ELSE x

Returns(v) == [raised |-> "", value |-> v]
Raises(e) == [raised |-> e, value |-> <<>>]

InitNormalize ==
    /\ fn = "normalize_course_code"
    /\ arg \in CodeStrings
    /\ res = Raises("")
    /\ returned = FALSE
    /\ BoIdle
    /\ ApiIdle
    /\ StoreIdle
    /\ ChunkIdle
    /\ ScriptIdle

\* retriever.normalize_course_code(arg) on an instance of the exported class.
NormalizeCall ==
    /\ fn = "normalize_course_code"
    /\ ~returned
    /\ res' = IF "normalize_course_code" \in Exported.methods
              THEN Returns(normalize_course_code(arg))
              ELSE Raises("AttributeError")
    /\ returned' = TRUE
    /\ UNCHANGED <<fn, arg, boVars, apiVars, storeVars, chunkVars, scriptVars>>

NextNormalize == NormalizeCall

SpecNormalize == InitNormalize /\ [][NextNormalize]_vars

\* A spelling of a course code: two to four letters, then four digits, in
\* any case and with spaces anywhere.
Conforming(x) ==
    LET clean == Clean(x) IN
    /\ LeadingCaps(clean) \in 2..4
    /\ Len(clean) = LeadingCaps(clean) + 4
    /\ \A i \in (LeadingCaps(clean) + 1)..Len(clean) : clean[i] = "4"

\* "DEPT ####" for a conforming spelling.
Canonical_Code(x) ==
    LET clean == Clean(x)
        n == LeadingCaps(clean)
    IN  SubSeq(clean, 1, n) \o <<" ">> \o SubSeq(clean, n + 1, Len(clean))

\* C15: the exported ProfessorRatingsRetriever offers normalize_course_code,
\* which maps every spelling of a 2-4 letter department followed by 4
\* digits to "DEPT ####", is idempotent, and returns every non-conforming
\* string unchanged.
C15_Claim ==
    (fn = "normalize_course_code" /\ returned) =>
        /\ res.raised = ""
        /\ Conforming(arg) => res.value = Canonical_Code(arg)
        /\ ~Conforming(arg) => res.value = arg
        /\ normalize_course_code(res.value) = res.value

\* What the shadowed definition (line 23) does: conforming spellings go to
\* "DEPT ####" and the function is idempotent.
C15_Shadowed ==
    fn = "normalize_course_code" =>
        /\ Conforming(arg) => normalize_course_code(arg) = Canonical_Code(arg)
        /\ normalize_course_code(normalize_course_code(arg)) = normalize_course_code(arg)

\* The shadowed definition returns every non-conforming string unchanged.
C15_ShadowedPassThrough ==
    (fn = "normalize_course_code" /\ ~Conforming(arg)) => normalize_course_code(arg) = arg

\* normalize_course_code("coms4995") was called on the exported class.
C15_Reached == fn = "normalize_course_code" /\ returned /\ arg = SampleLower


(***************************************************************************)
(* process_culpa_ratings (scripts/process_culpa_data.py)                   *)
(*                                                                         *)
(* Ratings are in tenths: 57 stands for 5.7.                               *)
(***************************************************************************)

\* Most rows of an input table.
MaxRows == 3

\* A professor_name cell: missing (NaN), or a string with or without
\* surrounding whitespace ("" with padding is a blank string).
Name(s, pad) == [missing |-> FALSE, s |-> s, pad |-> pad]
MissingName == [missing |-> TRUE, s |-> "", pad |-> FALSE]
NameCells == {MissingName, Name("", TRUE), Name("A", FALSE), Name("A", TRUE), Name("B", FALSE)}

\* A rating cell: missing, text that is no number, or a number.
Rating(v) == [k |-> "num", v |-> v]
MissingRating == [k |-> "missing", v |-> 0]
TextRating == [k |-> "text", v |-> 0]
RatingCells == {MissingRating, TextRating, Rating(-10), Rating(40), Rating(57)}

Rows == [professor_name : NameCells, rating : RatingCells]

\* A table with both canonical columns, or one that lacks a column (its
\* rows are never read).
CulpaTables ==
    [both : {TRUE}, rows : UNION {[1..n -> Rows] : n \in 0..MaxRows}]
        \cup [both : {FALSE}, rows : {<<>>}]

\* df_clean['professor_name'].str.strip()
StripName(name) == [name EXCEPT !.pad = FALSE]

\* notna() and != '' on the stripped name
NameKept(name) == ~name.missing /\ StripName(name).s # ""

\* dropna, pd.to_numeric(errors='coerce'), dropna
RatingKept(rating) == rating.k = "num"

\* A rating that is left as it is.
Clip_Mut(v) == v

\* df_clean['rating'].clip(0, 5)
Clip(v) == IF v < 0 THEN 0 ELSE IF v > 50 THEN 50 ELSE v

\* The rows left after the cleaning steps, names stripped, ratings clipped.
Cleaned(rows) ==
    LET kept == SelectSeq(rows, LAMBDA row : NameKept(row.professor_name) /\ RatingKept(row.rating))
    IN  [i \in 1..Len(kept) |->
            [professor_name |-> StripName(kept[i].professor_name).s,
             rating |-> Clip(kept[i].rating.v)]]

\* sort_values('rating', ascending=False), drop_duplicates(keep='first'):
\* per name, a row with the highest rating.
Deduplicated(clean) ==
    {clean[i] : i \in {j \in 1..Len(clean) :
        \A l \in 1..Len(clean) :
            clean[l].professor_name = clean[j].professor_name =>
                clean[l].rating <= clean[j].rating}}

\* process_culpa_ratings(df): the processed rows, or the exception raised
\* (a missing column; the share of high ratings on an empty result).
process_culpa_ratings(table) ==
    IF ~table.both THEN [raised |-> "ValueError", value |-> {}]
    ELSE IF Cleaned(table.rows) = <<>> THEN [raised |-> "ZeroDivisionError", value |-> {}]
    ELSE [raised |-> "", value |-> Deduplicated(Cleaned(table.rows))]

InitCulpa ==
    /\ fn = "process_culpa_ratings"
    /\ arg \in CulpaTables
    /\ res = [raised |-> "", value |-> {}]
    /\ returned = FALSE
    /\ BoIdle
    /\ ApiIdle
    /\ StoreIdle
    /\ ChunkIdle
    /\ ScriptIdle

CulpaCall ==
    /\ fn = "process_culpa_ratings"
    /\ ~returned
    /\ res' = process_culpa_ratings(arg)
    /\ returned' = TRUE
    /\ UNCHANGED <<fn, arg, boVars, apiVars, storeVars, chunkVars, scriptVars>>

NextCulpa == CulpaCall

SpecCulpa == InitCulpa /\ [][NextCulpa]_vars

\* The input rows that carry a name and a numeric rating.
Usable(rows) ==
    {i \in 1..Len(rows) :
        /\ ~rows[i].professor_name.missing
        /\ rows[i].professor_name.s # ""
        /\ rows[i].rating.k = "num"}

Clamped(v) == IF v > 50 THEN 50 ELSE IF v < 0 THEN 0 ELSE v

C16_RaisesOnEmpty ==
    /\ fn = "process_culpa_ratings" /\ returned /\ arg.both
    /\ res.raised = "ZeroDivisionError"


(***************************************************************************)
(* API service: claim C17                                                  *)
(***************************************************************************)

MaxMessages == 2

Text(words) == [type |-> "str", words |-> words]
None == [type |-> "NoneType", words |-> <<>>]

Providers == {"openai", "anthropic"}
Roles == {"system", "user", "assistant"}
Contents == {Text(<<"prompt">>), Text(<<"question">>)}

\* The message dicts generate is handed: well-formed ones, and one that
\* lacks the 'role' key.
NoRole == [content |-> Text(<<"question">>)]
MessageDicts == [role : Roles, content : Contents] \cup {NoRole}
MessageLists == UNION {[1..n -> MessageDicts] : n \in 0..MaxMessages}

\* What the provider's client does with the request: it raises an
\* Exception with a message, or returns a response object whose list of
\* choices (content blocks for Anthropic) is empty or holds one item, whose
\* content is a str or, for a chat completion message, None.
ErrorMessages == {<<"rate">>, <<"timeout">>, <<>>}
Replies ==
    [kind : {"raise"}, message : ErrorMessages, items : {<<>>}]
    \cup [kind : {"response"}, message : {<<>>},
          items : {<<>>, <<Text(<<"answer">>)>>, <<Text(<<>>)>>, <<None>>}]

\* A text block of the Anthropic SDK always carries a str.
RepliesOf(provider) ==
    IF provider = "anthropic"
    THEN {y \in Replies : \A j \in 1..Len(y.items) : y.items[j].type = "str"}
    ELSE Replies

GenerateArgs ==
    {a \in [provider : Providers, messages : MessageLists, reply : Replies] :
        a.reply \in RepliesOf(a.provider)}

\* except Exception as e: return f"Error: {str(e)}"
Caught(e) == Text(<<"Error:">> \o e)

\* response.choices[0].message.content / response.content[0].text
FirstContent(reply) ==
    IF reply.kind = "raise" THEN Caught(reply.message)
    ELSE IF reply.items = <<>> THEN Caught(<<"list", "index", "out", "of", "range">>)
    ELSE reply.items[1]

OpenAIGenerate(messages, reply) == FirstContent(reply)

\* The conversion of the messages: the last system message becomes the
\* system prompt, the others the conversation.
RECURSIVE Convert(_, _, _)
Convert(messages, system_message, conversation) ==
    IF messages = <<>> THEN [raised |-> "", system |-> system_message,
                             messages |-> conversation]
    ELSE IF "role" \notin DOMAIN Head(messages)
         THEN [raised |-> "'role'", system |-> system_message,
               messages |-> conversation]
    ELSE IF Head(messages).role = "system"
         THEN Convert(Tail(messages), Head(messages).content, conversation)
         ELSE Convert(Tail(messages), system_message,
                      Append(conversation, Head(messages)))

AnthropicGenerate(messages, reply) ==
    LET c == Convert(messages, None, <<>>) IN
    IF c.raised # "" THEN Caught(<<c.raised>>)
    ELSE FirstContent(reply)

generate(a) ==
    IF a.provider = "openai" THEN OpenAIGenerate(a.messages, a.reply)
    ELSE AnthropicGenerate(a.messages, a.reply)

InitLLM ==
    /\ fn = "generate"
    /\ arg \in GenerateArgs
    /\ res = Raises("")
    /\ returned = FALSE
    /\ BoIdle
    /\ ApiIdle
    /\ StoreIdle
    /\ ChunkIdle
    /\ ScriptIdle

\* llm.generate(messages): both bodies are one try block whose handler
\* returns, so the call always returns a value.
GenerateCall ==
    /\ fn = "generate"
    /\ ~returned
    /\ res' = Returns(generate(arg))
    /\ returned' = TRUE
    /\ UNCHANGED <<fn, arg, boVars, apiVars, storeVars, chunkVars, scriptVars>>

NextLLM == GenerateCall

SpecLLM == InitLLM /\ [][NextLLM]_vars

\* C18: generate of either interface never raises and always returns text,
\* and a failure of the provider call comes back as "Error: <message>".
C18_Claim ==
    (fn = "generate" /\ returned) =>
        /\ res.raised = ""
        /\ res.value.type = "str"
        /\ arg.reply.kind = "raise" =>
               res.value = Text(<<"Error:">> \o arg.reply.message)

\* What does hold: no Exception leaves generate, a provider failure is
\* returned as "Error: <message>", and AnthropicInterface.generate returns
\* a str.
C18_NeverRaises ==
    (fn = "generate" /\ returned) =>
        /\ res.raised = ""
        /\ arg.reply.kind = "raise" /\ (arg.provider = "openai"
                 \/ \A j \in 1..Len(arg.messages) : "role" \in DOMAIN arg.messages[j])
             => res.value = Text(<<"Error:">> \o arg.reply.message)
        /\ arg.provider = "anthropic" => res.value.type = "str"

\* OpenAIInterface.generate returned None.
C18_ReturnsNone ==
    fn = "generate" /\ returned /\ arg.provider = "openai" /\ res.value = None


(***************************************************************************)
(* Mock backend (frontend-api-mock/main_enhanced.py) against the schemas   *)
(* of the real backend (src/api/models.py).  Request and response bodies   *)
(* are decoded JSON values; floats are in hundredths.                      *)
(***************************************************************************)

MaxCourseCodes == 2

\* The JSON object with the given <<key, value>> pairs.
ObjOf(pairs) ==
    VObj([i \in 1..Len(pairs) |-> pairs[i][1]], [i \in 1..Len(pairs) |-> pairs[i][2]])

Absent == <<>>
Given(key, v) == << <<key, v>> >>

ProfileFull == ObjOf(<< <<"program", VStr("MS CS")>>, <<"catalog_year", VNum(2024)>> >>)
ProfileNoYear == ObjOf(<< <<"program", VStr("MS CS")>> >>)

QuestionOpts == {Absent, Given("question", VStr("q")), Given("question", VNull)}
ProfileOpts == {Absent, Given("user_profile", VNull),
                Given("user_profile", ProfileFull), Given("user_profile", ProfileNoYear)}
TopKOpts == {Absent, Given("top_k", VNull), Given("top_k", VNum(5)),
             Given("top_k", VNum(0)), Given("top_k", VNum(21))}
NumSemestersOpts == {Absent, Given("num_semesters", VNull), Given("num_semesters", VNum(4)),
                     Given("num_semesters", VNum(0)), Given("num_semesters", VNum(9))}
CodeLists == UNION {[1..n -> {VStr("COMS 4111"), VStr("COMS 4701")}] : n \in 0..MaxCourseCodes}
CourseCodesOpts == {Absent, Given("course_codes", VStr("COMS 4111"))}
                   \cup {Given("course_codes", VArr(l)) : l \in CodeLists}

Routes == {"/ask", "/plan", "/professors"}
BodiesOf(path) ==
    IF path = "/ask"
    THEN {ObjOf(q \o u \o t) : q \in QuestionOpts, u \in ProfileOpts, t \in TopKOpts}
    ELSE IF path = "/plan"
    THEN {ObjOf(u \o n) : u \in ProfileOpts, n \in NumSemestersOpts}
    ELSE {ObjOf(c) : c \in CourseCodesOpts}

MockRequests ==
    {a \in [route : Routes, strict : BOOLEAN,
            body : BodiesOf("/ask") \cup BodiesOf("/plan") \cup BodiesOf("/professors")] :
        a.body \in BodiesOf(a.route)}

\* Field(..., ge=lo, le=hi) on an int.
IntIn(v, lo, hi) == v.k = "num" /\ v.n >= lo /\ v.n <= hi
StrListOk(v, strict) ==
    v.k = "arr" /\ \A j \in 1..Len(v.vals) : StrFieldOk(v.vals[j], strict)

\* UserProfile: the same fields in both files.
UserProfileOk(v, strict) ==
    /\ v.k = "obj"
    /\ Has(v, "program") /\ StrFieldOk(Get(v, "program", VNull), strict)
    /\ Has(v, "catalog_year") /\ IntFieldOk(Get(v, "catalog_year", VNull))
    /\ OptStrFieldOk(Get(v, "target_graduation", VNull), strict)
    /\ Has(v, "completed_courses") => StrListOk(Get(v, "completed_courses", VNull), strict)
    /\ Has(v, "preference") => StrFieldOk(Get(v, "preference", VNull), strict)

\* QuestionRequest: the same fields in both files.
QuestionRequestOk(b, strict) ==
    /\ Has(b, "question") /\ StrFieldOk(Get(b, "question", VNull), strict)
    /\ Get(b, "user_profile", VNull).k = "null"
          \/ UserProfileOk(Get(b, "user_profile", VNull), strict)
    /\ Get(b, "top_k", VNull).k = "null" \/ IntIn(Get(b, "top_k", VNull), 1, 20)

\* models.py: num_semesters: Optional[int] = Field(4, ge=1, le=8)
RealPlanRequestOk(b, strict) ==
    /\ Has(b, "user_profile") /\ UserProfileOk(Get(b, "user_profile", VNull), strict)
    /\ Get(b, "num_semesters", VNull).k = "null"
          \/ IntIn(Get(b, "num_semesters", VNull), 1, 8)

\* main_enhanced.py: num_semesters: int = Field(4, ge=1, le=8)
MockPlanRequestOk(b, strict) ==
    /\ Has(b, "user_profile") /\ UserProfileOk(Get(b, "user_profile", VNull), strict)
    /\ Has(b, "num_semesters") => IntIn(Get(b, "num_semesters", VNull), 1, 8)

\* ProfessorQueryRequest: the same field in both files.
ProfessorQueryRequestOk(b, strict) ==
    Has(b, "course_codes") /\ StrListOk(Get(b, "course_codes", VNull), strict)

RealAccepts(a) ==
    IF a.route = "/ask" THEN QuestionRequestOk(a.body, a.strict)
    ELSE IF a.route = "/plan" THEN RealPlanRequestOk(a.body, a.strict)
    ELSE ProfessorQueryRequestOk(a.body, a.strict)

MockAccepts(a) ==
    IF a.route = "/ask" THEN QuestionRequestOk(a.body, a.strict)
    ELSE IF a.route = "/plan" THEN MockPlanRequestOk(a.body, a.strict)
    ELSE ProfessorQueryRequestOk(a.body, a.strict)

mock_answer(b) ==
    LET up == Get(b, "user_profile", VNull)
        program == IF up.k = "obj" THEN Get(up, "program", VNull) ELSE VNull
        year == IF up.k = "obj" THEN Get(up, "catalog_year", VNull) ELSE VNull
    IN  ObjOf(<< <<"question", Get(b, "question", VNull)>>,
                 <<"answer", VStr("[MOCK] I received your question")>>,
                 <<"sources", VArr(<<ObjOf(<< <<"text", VStr("(MOCK) Example snippet")>>,
                                             <<"source", VStr("mock_requirements_doc")>>,
                                             <<"program", program>>,
                                             <<"catalog_year", year>>,
                                             <<"similarity", VNum(88)>> >>)>>)>>,
                 <<"disclaimer", VStr(QA_DISCLAIMER)>> >>)

MockSemester(name, code, category) ==
    ObjOf(<< <<"name", VStr(name)>>,
             <<"courses", VArr(<<ObjOf(<< <<"course_code", VStr(code)>>,
                                         <<"category", VStr(category)>> >>)>>)>> >>)

mock_plan(b) ==
    ObjOf(<< <<"user_profile", Get(b, "user_profile", VNull)>>,
             <<"semesters", VArr(<<MockSemester("Fall 2025", "COMS 4995", "elective"),
                                  MockSemester("Spring 2026", "COMS 4111", "core")>>)>>,
             <<"notes", VArr(<<VStr("(MOCK) Plan generated without prerequisite checks.")>>)>>,
             <<"explanation", VStr("(MOCK) This is a placeholder plan.")>>,
             <<"disclaimer", VStr(PLAN_DISCLAIMER)>> >>)

\* The keys of {code: ... for code in codes}: each code once, in the order
\* of its first occurrence.
RECURSIVE DictKeys(_)
DictKeys(codes) ==
    IF codes = <<>> THEN <<>>
    ELSE LET front == DictKeys(SubSeq(codes, 1, Len(codes) - 1))
             c == codes[Len(codes)]
         IN  IF \E j \in 1..Len(front) : front[j] = c THEN front ELSE Append(front, c)

MockProf ==
    ObjOf(<< <<"prof_name", VStr("Mock Prof")>>, <<"rating", VNum(460)>>,
             <<"tags", VStr("clear, helpful")>> >>)

mock_professors(b) ==
    LET codes == DictKeys(Get(b, "course_codes", VArr(<<>>)).vals) IN
    ObjOf(<< <<"professors",
               VObj([j \in 1..Len(codes) |-> codes[j].s],
                    [j \in 1..Len(codes) |-> VArr(<<MockProf>>)])>> >>)

HttpReply(status, body) == [raised |-> "", value |-> [status |-> status, body |-> body]]

\* The mock's route: FastAPI validates the body against the mock's request
\* model (422 when it fails) and returns what the mock function builds.
MockResponse(a) ==
    IF ~MockAccepts(a) THEN HttpReply(422, VNull)
    ELSE IF a.route = "/ask" THEN HttpReply(200, mock_answer(a.body))
    ELSE IF a.route = "/plan" THEN HttpReply(200, mock_plan(a.body))
    ELSE HttpReply(200, mock_professors(a.body))

\* The response models of models.py.
FloatFieldOk(v) == v.k = "num"
OptIntFieldOk(v) == v.k \in {"num", "null"}

SourceOk(v, strict) ==
    /\ v.k = "obj"
    /\ Has(v, "text") /\ StrFieldOk(Get(v, "text", VNull), strict)
    /\ Has(v, "source") /\ StrFieldOk(Get(v, "source", VNull), strict)
    /\ OptStrFieldOk(Get(v, "program", VNull), strict)
    /\ OptIntFieldOk(Get(v, "catalog_year", VNull))
    /\ Has(v, "similarity") /\ FloatFieldOk(Get(v, "similarity", VNull))

ListOf(v, Ok(_)) == v.k = "arr" /\ \A j \in 1..Len(v.vals) : Ok(v.vals[j])

QuestionResponseOk(v, strict) ==
    /\ v.k = "obj"
    /\ Has(v, "question") /\ StrFieldOk(Get(v, "question", VNull), strict)
    /\ Has(v, "answer") /\ StrFieldOk(Get(v, "answer", VNull), strict)
    /\ Has(v, "sources")
    /\ LET Ok(x) == SourceOk(x, strict) IN ListOf(Get(v, "sources", VNull), Ok)
    /\ Has(v, "disclaimer") => StrFieldOk(Get(v, "disclaimer", VNull), strict)

SemesterOk(v, strict) ==
    /\ v.k = "obj"
    /\ Has(v, "name") /\ StrFieldOk(Get(v, "name", VNull), strict)
    /\ Has(v, "courses")
    /\ LET Ok(x) == CourseExc(x, strict) = "" IN ListOf(Get(v, "courses", VNull), Ok)
    /\ OptIntFieldOk(Get(v, "total_credits", VNull))

PlanResponseOk(v, strict) ==
    /\ v.k = "obj"
    /\ Has(v, "user_profile") /\ UserProfileOk(Get(v, "user_profile", VNull), strict)
    /\ Has(v, "semesters")
    /\ LET Ok(x) == SemesterOk(x, strict) IN ListOf(Get(v, "semesters", VNull), Ok)
    /\ Has(v, "notes") /\ StrListOk(Get(v, "notes", VNull), strict)
    /\ Has(v, "explanation") /\ StrFieldOk(Get(v, "explanation", VNull), strict)
    /\ Has(v, "disclaimer") => StrFieldOk(Get(v, "disclaimer", VNull), strict)

ProfessorRatingOk(v, strict) ==
    /\ v.k = "obj"
    /\ Has(v, "course_code") /\ StrFieldOk(Get(v, "course_code", VNull), strict)
    /\ Has(v, "prof_name") /\ StrFieldOk(Get(v, "prof_name", VNull), strict)
    /\ Has(v, "rating") /\ FloatFieldOk(Get(v, "rating", VNull))
    /\ Has(v, "tags") => StrFieldOk(Get(v, "tags", VNull), strict)

ProfessorQueryResponseOk(v, strict) ==
    /\ v.k = "obj"
    /\ Has(v, "professors")
    /\ LET d == Get(v, "professors", VNull)
           Ok(x) == ProfessorRatingOk(x, strict)
       IN  d.k = "obj" /\ \A j \in 1..Len(d.vals) : ListOf(d.vals[j], Ok)

RealResponseOk(path, v, strict) ==
    IF path = "/ask" THEN QuestionResponseOk(v, strict)
    ELSE IF path = "/plan" THEN PlanResponseOk(v, strict)
    ELSE ProfessorQueryResponseOk(v, strict)

InitMock ==
    /\ fn = "mock"
    /\ arg \in MockRequests
    /\ res = Raises("")
    /\ returned = FALSE
    /\ BoIdle
    /\ ApiIdle
    /\ StoreIdle
    /\ ChunkIdle
    /\ ScriptIdle

\* One POST to the mock backend.
MockCall ==
    /\ fn = "mock"
    /\ ~returned
    /\ res' = MockResponse(arg)
    /\ returned' = TRUE
    /\ UNCHANGED <<fn, arg, boVars, apiVars, storeVars, chunkVars, scriptVars>>

NextMock == MockCall

SpecMock == InitMock /\ [][NextMock]_vars

\* C19: every body the real backend accepts on /ask, /plan and /professors
\* is accepted by the mock, whose response satisfies the real backend's
\* response schema for the route.
C19_Claim ==
    (fn = "mock" /\ returned /\ RealAccepts(arg)) =>
        /\ res.value.status = 200
        /\ RealResponseOk(arg.route, res.value.body, arg.strict)

\* What does hold: parity on /ask; on /plan for every body whose
\* num_semesters is not null; on /professors acceptance, and the response
\* schema only for an empty list of codes.
C19_Parity ==
    (fn = "mock" /\ returned /\ RealAccepts(arg)) =>
        /\ arg.route = "/ask" =>
              /\ res.value.status = 200
              /\ RealResponseOk(arg.route, res.value.body, arg.strict)
        /\ arg.route = "/plan" /\ ~(Has(arg.body, "num_semesters")
                                    /\ Get(arg.body, "num_semesters", VNull) = VNull) =>
              /\ res.value.status = 200
              /\ RealResponseOk(arg.route, res.value.body, arg.strict)
        /\ arg.route = "/professors" =>
              /\ res.value.status = 200
              /\ RealResponseOk(arg.route, res.value.body, arg.strict)
                    <=> Get(arg.body, "course_codes", VNull).vals = <<>>

\* The mock rejects {"user_profile": {...}, "num_semesters": null}.
C19_NullSemestersRejected ==
    /\ fn = "mock" /\ returned /\ arg.route = "/plan" /\ RealAccepts(arg)
    /\ res.value.status = 422


(***************************************************************************)
(* get_professor_ids (Code/src/utils/ratings.py), from the search results  *)
(* on.  A result has its position as professor_id, a relevance, whether it *)
(* is a professor entry and whether name_matches holds for it.             *)
(***************************************************************************)

MaxCandidates == 3

Relevances == {0, 90, 100, 104}

SearchResults ==
    UNION {{l \in [1..n -> [professor_id : 1..n, relevance : Relevances,
                            professor_header : BOOLEAN, name_matches : BOOLEAN]] :
               \A j \in 1..n : l[j].professor_id = j}
           : n \in 0..MaxCandidates}

\* results = [r for r in results if PROF in r.keys()]
RECURSIVE OnlyProfessors(_)
OnlyProfessors(results) ==
    IF results = <<>> THEN <<>>
    ELSE IF Head(results).professor_header
         THEN <<Head(results)>> \o OnlyProfessors(Tail(results))
         ELSE OnlyProfessors(Tail(results))

RECURSIVE TotalRelevance(_)
TotalRelevance(results) ==
    IF results = <<>> THEN 0
    ELSE Head(results).relevance + TotalRelevance(Tail(results))

\* r[REL] / total_relevance > 0.5
Dominant(results) ==
    {j \in 1..Len(results) : 2 * results[j].relevance > TotalRelevance(results)}

\* results[0][REL] > 1.25 * results[1][REL]
ClearlyFirst(results) == 4 * results[1].relevance > 5 * results[2].relevance

AbsDiff(a, b) == IF a >= b THEN a - b ELSE b - a

\* abs(past_match[REL] / r[REL] - 1.0) < TOL, TOL = 0.05, for r[REL] > 0
WithinTol(past_match, cand) ==
    20 * AbsDiff(past_match.relevance, cand.relevance) < cand.relevance

IdsFound(ids) == [kind |-> "ids", ids |-> ids, missed |-> FALSE]
NotFound == [kind |-> "None", ids |-> <<>>, missed |-> FALSE]
Missed == [kind |-> "None", ids |-> <<>>, missed |-> TRUE]

\* The loop of lines 94-107 from result j on: the first pass appends the
\* first id and, its two ifs being independent, goes on to test the first
\* result against itself.
RECURSIVE Cluster(_, _, _)
Cluster(results, j, professor_ids) ==
    IF j > Len(results) THEN Returns(professor_ids)
    ELSE
        LET cand == results[j]
            ids == IF professor_ids = <<>> THEN <<cand.professor_id>> ELSE professor_ids
        IN  IF ~cand.name_matches THEN Cluster(results, j + 1, ids)
            ELSE IF cand.relevance = 0 THEN Raises("ZeroDivisionError")
            ELSE IF WithinTol(results[1], cand)
                 THEN Cluster(results, j + 1, Append(ids, cand.professor_id))
                 ELSE Cluster(results, j + 1, ids)

get_professor_ids(found) ==
    LET results == OnlyProfessors(found) IN
    IF Len(results) = 0 THEN Returns(NotFound)
    ELSE IF ~results[1].name_matches THEN Returns(NotFound)
    ELSE IF Len(results) = 1 THEN Returns(IdsFound(<<results[1].professor_id>>))
    ELSE IF TotalRelevance(results) = 0 THEN Raises("ZeroDivisionError")
    ELSE IF Dominant(results) # {}
         THEN Returns(IdsFound(<<results[MinOf(Dominant(results))].professor_id>>))
    ELSE IF ClearlyFirst(results) THEN Returns(IdsFound(<<results[1].professor_id>>))
    ELSE
        LET c == Cluster(results, 1, <<>>) IN
        IF c.raised # "" THEN c
        ELSE IF Len(c.value) > 1 THEN Returns(IdsFound(c.value))
        ELSE Returns(Missed)

InitIds ==
    /\ fn = "get_professor_ids"
    /\ arg \in SearchResults
    /\ res = Raises("")
    /\ returned = FALSE
    /\ BoIdle
    /\ ApiIdle
    /\ StoreIdle
    /\ ChunkIdle
    /\ ScriptIdle

\* get_professor_ids(name) once the search has answered with arg.
IdsCall ==
    /\ fn = "get_professor_ids"
    /\ ~returned
    /\ res' = get_professor_ids(arg)
    /\ returned' = TRUE
    /\ UNCHANGED <<fn, arg, boVars, apiVars, storeVars, chunkVars, scriptVars>>

NextIds == IdsCall

SpecIds == InitIds /\ [][NextIds]_vars

\* The clustering step as the claim describes it: two or more professor
\* candidates, the top one's name matches, none has more than half of the
\* summed relevance, and the top relevance is at most 1.25 times the second.
Candidates == OnlyProfessors(arg)
AtClustering ==
    /\ fn = "get_professor_ids"
    /\ Len(Candidates) >= 2
    /\ Candidates[1].name_matches
    /\ \A j \in 1..Len(Candidates) :
          2 * Candidates[j].relevance <= TotalRelevance(Candidates)
    /\ 4 * Candidates[1].relevance <= 5 * Candidates[2].relevance

Qualifies(j) ==
    /\ Candidates[j].name_matches
    /\ Candidates[j].relevance > 0
    /\ 20 * AbsDiff(Candidates[1].relevance, Candidates[j].relevance)
          < Candidates[j].relevance

RECURSIVE LaterIds(_)
LaterIds(j) ==
    IF j > Len(Candidates) THEN <<>>
    ELSE IF Qualifies(j) THEN <<Candidates[j].professor_id>> \o LaterIds(j + 1)
    ELSE LaterIds(j + 1)

\* C20: at the clustering step get_professor_ids returns the first
\* candidate's id plus the id of every later candidate whose name matches
\* and whose relevance is within 5% of the first's, when there is one; when
\* there is none it reports the unparsed-match failure and returns None.
C20_Claim ==
    (returned /\ AtClustering) =>
        IF LaterIds(2) # <<>>
        THEN res = Returns(IdsFound(<<Candidates[1].professor_id>> \o LaterIds(2)))
        ELSE res = Returns(Missed)

\* What the code does at the clustering step when no matching candidate has
\* relevance 0: it returns the first id twice, then the later qualifying
\* ids, and never reports the failure.
C20_FirstTwice ==
    (returned /\ AtClustering
       /\ \A j \in 1..Len(Candidates) :
             Candidates[j].name_matches => Candidates[j].relevance > 0) =>
        res = Returns(IdsFound(<<Candidates[1].professor_id, Candidates[1].professor_id>>
                               \o LaterIds(2)))

\* The failure report is never reached.
C20_NeverMissed == (fn = "get_professor_ids" /\ returned) => res # Returns(Missed)


(***************************************************************************)
(* CULPA processor: main() (scripts/process_culpa_data.py)                 *)
(* A file is known by what reading and processing it does.                 *)
(***************************************************************************)

\* "missing": no such file; "valid": a ratings CSV with usable rows;
\* "no_columns": a CSV without the required columns; "no_rows": a CSV whose
\* rows are all dropped by the cleaning.
FileKinds == {"missing", "valid", "no_columns", "no_rows"}

Script == "process_culpa_data.py"
ArgvChoices == {<<Script>>, <<Script, "given">>}

\* Path(p).exists()
Exists(p) == files[p] # "missing"

\* load_culpa_ratings(p): pd.read_csv raises FileNotFoundError.
LoadRaises(p) == files[p] = "missing"

\* process_culpa_ratings(df, ...): ValueError for missing columns,
\* ZeroDivisionError in the statistics when no row is left.
ProcessRaises(p) == files[p] \in {"no_columns", "no_rows"}

InitMain ==
    /\ argv \in ArgvChoices
    /\ files \in [{"default", "given"} -> FileKinds]
    /\ mpc = "check"
    /\ culpa_csv = "default"
    /\ exit_code = -1
    /\ LoopIdle
    /\ BoIdle
    /\ ApiIdle
    /\ StoreIdle
    /\ ChunkIdle
    /\ FnIdle

MainFrame == UNCHANGED <<argv, files, loopVars, boVars, apiVars, storeVars, chunkVars, fnVars>>

\* if not Path(culpa_csv).exists(): ... sys.exit(1)
MainCheckDefault ==
    /\ mpc = "check"
    /\ IF Exists(culpa_csv)
       THEN mpc' = "argv" /\ exit_code' = exit_code
       ELSE mpc' = "done" /\ exit_code' = 1
    /\ UNCHANGED culpa_csv
    /\ MainFrame

\* if len(sys.argv) > 1: culpa_csv = sys.argv[1]
MainArgv ==
    /\ mpc = "argv"
    /\ culpa_csv' = IF Len(argv) > 1 THEN argv[2] ELSE culpa_csv
    /\ mpc' = "load"
    /\ UNCHANGED exit_code
    /\ MainFrame

\* df = load_culpa_ratings(culpa_csv), inside the try
MainLoad ==
    /\ mpc = "load"
    /\ IF LoadRaises(culpa_csv)
       THEN mpc' = "done" /\ exit_code' = 1
       ELSE mpc' = "process" /\ exit_code' = exit_code
    /\ UNCHANGED culpa_csv
    /\ MainFrame

\* df_processed = process_culpa_ratings(df, processed_csv), inside the try
MainProcess ==
    /\ mpc = "process"
    /\ IF ProcessRaises(culpa_csv)
       THEN mpc' = "done" /\ exit_code' = 1
       ELSE mpc' = "report" /\ exit_code' = exit_code
    /\ UNCHANGED culpa_csv
    /\ MainFrame

\* The matching, the report and the index config, then main returns.
MainReport ==
    /\ mpc = "report"
    /\ mpc' = "done"
    /\ exit_code' = 0
    /\ UNCHANGED culpa_csv
    /\ MainFrame

NextMain ==
    \/ MainCheckDefault
    \/ MainArgv
    \/ MainLoad
    \/ MainProcess
    \/ MainReport

SpecMain == InitMain /\ [][NextMain]_vars

\* C21: when a positional input path is given and that file is a valid
\* ratings CSV, the run processes that file and ends with success, whether
\* or not the default input exists.
C21_Claim ==
    (mpc = "done" /\ Len(argv) > 1 /\ files["given"] = "valid") =>
        exit_code = 0 /\ culpa_csv = "given"

\* What does hold: the same, provided the default input exists.
C21_WithDefault ==
    (mpc = "done" /\ Len(argv) > 1 /\ files["given"] = "valid" /\ files["default"] # "missing") =>
        exit_code = 0 /\ culpa_csv = "given"

\* A run with a valid given path ended with status 1 without reading it.
C21_NotRead ==
    /\ mpc = "done" /\ Len(argv) > 1 /\ files["given"] = "valid"
    /\ exit_code = 1 /\ culpa_csv = "default"


(***************************************************************************)
(* API service: claims C22 and C29                                         *)
(***************************************************************************)

\* C22: in every state the startup hook can leave behind, whenever
\* GET /health reports "healthy", POST /ask and POST /plan with a valid body
\* do not answer 503.
C22_Claim ==
    (StartupOver /\ hpc = "done" /\ route \in {"/ask", "/plan"}
       /\ HealthStatus = "healthy") =>
        response.status # 503

\* What does hold: after a complete startup no request is answered 503.
C22_ReadyNo503 ==
    (st = "ready" /\ hpc = "done") => response.status # 503

\* The hook failed after the requirements retriever was built: health says
\* "healthy" and /ask answers 503.
C22_HealthyBut503 ==
    /\ st = "failed" /\ HealthStatus = "healthy"
    /\ route = "/ask" /\ hpc = "done" /\ response.status = 503

\* C29: in every state the startup hook can leave behind, whatever step of
\* it failed, the components are present in construction order.
C29_ConstructionOrder ==
    StartupOver =>
        /\ llm_interface = "set" => professor_retriever = "set"
        /\ professor_retriever = "set" => requirements_retriever = "set"
        /\ requirements_retriever = "set" => embedder = "set"

\* The hook failed while building the professor retriever: embedder and
\* requirements retriever are present, the later two are not.
C29_Witness ==
    /\ st = "failed"
    /\ embedder = "set" /\ requirements_retriever = "set"
    /\ professor_retriever = "None" /\ llm_interface = "None"


(***************************************************************************)
(* API service: claim C23                                                  *)
(***************************************************************************)

\* C23: parse_planning_response never raises: for every LLM response text
\* it returns a (semesters, notes, explanation) triple, so POST /plan never
\* answers 500 because of what the LLM wrote.
C23_Claim ==
    (route = "/plan" /\ parsed # NotParsed) =>
        /\ parsed.kind # "raise"
        /\ hpc = "done" => response.status # 500

\* What does hold: when the search locates nothing or the span located is
\* not valid JSON, the function returns the fallback triple.
C23_DecodeErrorCaught ==
    (route = "/plan" /\ parsed # NotParsed /\ NothingLocated(plan_text)) =>
        parsed.kind = "fallback"

\* A KeyError left parse_planning_response and /plan answered 500.
C23_KeyError500 ==
    /\ route = "/plan" /\ hpc = "done"
    /\ parsed.kind = "raise" /\ parsed.exc = "KeyError"
    /\ response.status = 500


(***************************************************************************)
(* FAISSVectorStore.search on stores of up to MaxStored documents          *)
(***************************************************************************)

MaxStored == 3

\* The contents a flat-file store can hold after adds without explicit ids.
StoreContents ==
    UNION {[1..n -> [emb : Embeddings, course_code : CourseCodes]] : n \in 0..MaxStored}

IndexOf(content) == [i \in 1..Len(content) |-> content[i].emb]
DocumentsOf(content) ==
    [i \in 1..Len(content) |->
        [id |-> DocId(i - 1), course_code |-> content[i].course_code, rating |-> 3]]

SearchArgs ==
    [content : StoreContents, q : Embeddings, k : 1..MaxK,
     filter : {NoFilter} \cup {FilterOn(c) : c \in CourseCodes}]

InitFaissSearch ==
    /\ fn = "FAISSVectorStore.search"
    /\ arg \in SearchArgs
    /\ res = Raises("")
    /\ returned = FALSE
    /\ BoIdle
    /\ ApiIdle
    /\ StoreIdle
    /\ ChunkIdle
    /\ ScriptIdle

\* store.search(query_embedding, k, filter_dict) on a store holding content.
FaissSearchCall ==
    /\ fn = "FAISSVectorStore.search"
    /\ ~returned
    /\ res' = Returns(FaissSearch(IndexOf(arg.content), DocumentsOf(arg.content),
                                  arg.q, arg.k, arg.filter))
    /\ returned' = TRUE
    /\ UNCHANGED <<fn, arg, boVars, apiVars, storeVars, chunkVars, scriptVars>>

NextFaissSearch == FaissSearchCall

SpecFaissSearch == InitFaissSearch /\ [][NextFaissSearch]_vars

\* The stored documents that match the filter of the call.
MatchingStored == {i \in 1..Len(arg.content) : Matches(arg.content[i], arg.filter)}
ProductOf(hit) == Cos100(arg.content[hit.id.n + 1].emb, arg.q)

ResultsSound ==
    /\ Len(res.value) <= arg.k
    /\ \A i \in 1..Len(res.value) : Matches(res.value[i], arg.filter)
    /\ \A i \in 1..(Len(res.value) - 1) :
          ProductOf(res.value[i]) >= ProductOf(res.value[i + 1])

\* C24: FAISSVectorStore.search with a metadata filter is complete: with m
\* matching stored documents it returns min(k, m) results, all matching the
\* filter and ordered by descending inner product.
C24_Claim ==
    (fn = "FAISSVectorStore.search" /\ returned) =>
        /\ ResultsSound
        /\ Len(res.value) = Min2(arg.k, Cardinality(MatchingStored))

\* What does hold: the results match the filter, are at most k and are in
\* descending order; the count is right without a filter and whenever the
\* store holds at most 2k documents.
C24_SoundOnly ==
    (fn = "FAISSVectorStore.search" /\ returned) =>
        /\ ResultsSound
        /\ (~arg.filter.on \/ Len(arg.content) <= 2 * arg.k) =>
              Len(res.value) = Min2(arg.k, Cardinality(MatchingStored))

\* A matching document was stored and the search returned nothing.
C24_LeftOut ==
    /\ fn = "FAISSVectorStore.search" /\ returned
    /\ MatchingStored # {} /\ res.value = <<>>


(***************************************************************************)
(* Vector stores: claim C25                                                *)
(***************************************************************************)

\* The store was filled by add_documents calls without explicit ids.
DefaultIdsUsed == documents # <<>> /\ documents[1].id.p = "doc"

DistinctIds ==
    \A i, j \in 1..Len(documents) : i # j => documents[i].id # documents[j].id

\* C25: for both vector stores, after any sequence of add_documents calls
\* without explicit ids, the ids assigned are pairwise distinct across calls:
\* a later call never reuses an id of an earlier one, so every record of
\* every call is stored.
C25_Claim ==
    (last.op = "add" /\ DefaultIdsUsed) => (DistinctIds /\ ~last.raised)

\* What does hold: the claim for the flat-file store, whose default ids
\* start at len(self.documents).
C25_FaissOnly ==
    (backend = "faiss" /\ last.op = "add" /\ DefaultIdsUsed) =>
        (DistinctIds /\ ~last.raised)

\* A second add without ids on the collection-backed store stored nothing.
C25_Reused ==
    /\ backend = "chroma" /\ last.op = "add" /\ DefaultIdsUsed
    /\ last.raised /\ Len(documents) = 1


(***************************************************************************)
(* Flat-file store: claim C26                                              *)
(***************************************************************************)

\* The files of a flat-file store that held documents are gone:
\* delete_collection has run and nothing was added since.
Deleted == backend = "faiss" /\ ~disk.exists /\ last.op \in {"delete", "search", "retrieve", "professors"}

\* A search that follows delete_collection on the same object returns no
\* result.
SearchEmptyAfterDelete ==
    (Deleted /\ last.op = "search") => last.items = <<>>

\* An add_documents that follows delete_collection persists only the
\* documents it adds.
AddPersistsOnlyNew ==
    (Deleted /\ last'.op = "add") =>
        disk'.documents = SubSeq(documents', Len(documents) + 1, Len(documents'))

\* C26: after delete_collection on a FAISS store that held documents the
\* store is empty: a following search on the same object returns no result,
\* and a following add_documents persists only the newly added documents,
\* so that a store reopened from disk holds exactly those.
C26_Claim == []SearchEmptyAfterDelete /\ [][AddPersistsOnlyNew]_vars

\* What does hold: the files are gone after delete_collection, and a store
\* reopened before anything is added is empty.
C26_FilesGone ==
    /\ last.op = "delete" => disk = NoFiles
    /\ (last.op = "reopen" /\ ~disk.exists) => (documents = <<>> /\ index = <<>>)

\* A store reopened after delete_collection and one add of one document
\* holds two documents.
C26_OldDocumentsBack ==
    /\ backend = "faiss" /\ last.op = "reopen"
    /\ Len(documents) = 2 /\ disk.exists


(***************************************************************************)
(* Chunker: claim C27                                                      *)
(***************************************************************************)

\* Chunk i without its leading overlap sentences (the first chunk has none).
WithoutOverlap(i) ==
    IF i = 1 THEN chunks[1]
    ELSE SubSeq(chunks[i], Len(overlaps[i - 1]) + 1, Len(chunks[i]))

RECURSIVE Concatenated(_)
Concatenated(i) ==
    IF i > Len(chunks) THEN <<>> ELSE WithoutOverlap(i) \o Concatenated(i + 1)

\* C27: chunk_text loses and reorders nothing: for every non-empty text,
\* removing from every chunk after the first its leading overlap sentences
\* and concatenating the chunks in order gives exactly the sentence sequence
\* of the input, each sentence once.
C27_NothingLost ==
    (cpc = "done" /\ text # <<>>) =>
        /\ \A i \in 2..Len(chunks) : IsPrefix(overlaps[i - 1], chunks[i])
        /\ Concatenated(1) = [j \in 1..Len(sentences) |-> j]

\* A text was cut into three chunks, the later ones starting with an
\* overlap.
C27_Witness ==
    /\ cpc = "done" /\ Len(chunks) >= 3
    /\ overlaps[1] # <<>> /\ overlaps[2] # <<>>


(***************************************************************************)
(* LangChain pipeline (rag/langchain_rag.py): SimpleVectorStore and        *)
(* PathWiseRAG.retrieve_context                                            *)
(***************************************************************************)

MaxSimpleDocs == 2

\* Largest k asked of the LangChain pipeline (0 included).
MaxSimpleK == 3

QueryTypes == {"professor", "program", "general"}
SimpleEmbeddings == {<<3, 4>>, <<-4, 3>>}

\* What a SimpleVectorStore loaded: embeddings and metadatas, in order.
SimpleStores ==
    UNION {[1..n -> [emb : SimpleEmbeddings, course_code : CourseCodes]] : n \in 0..MaxSimpleDocs}

\* np.argsort(similarities)[::-1]: descending similarity; the sort is stable
\* on arrays this small, so among equal similarities the later index comes
\* first after the reversal.
ArgsortReversed(store, q) ==
    SortDesc(1..Len(store),
             [j \in 1..Len(store) |-> 10 * Cos100(store[j].emb, q) + j])

\* The loop of lines 69-90 from position p of top_indices on: the test
\* len(results) >= k comes after the append.
RECURSIVE Collect(_, _, _, _, _, _)
Collect(store, q, top_indices, p, k, filter) ==
    IF p > Len(top_indices) THEN <<>>
    ELSE IF ~Matches(store[top_indices[p]], filter)
         THEN Collect(store, q, top_indices, p + 1, k, filter)
    ELSE LET doc == [idx |-> top_indices[p],
                     similarity |-> Cos100(store[top_indices[p]].emb, q)]
         IN  IF 1 >= k THEN <<doc>>
             ELSE <<doc>> \o Collect(store, q, top_indices, p + 1, k - 1, filter)

similarity_search(store, q, k, filter) ==
    Collect(store, q, ArgsortReversed(store, q), 1, k, filter)

retrieve_context(prof_store, programs_store, q, query_type, k) ==
    IF query_type = "professor" THEN similarity_search(prof_store, q, k, NoFilter)
    ELSE IF query_type = "program" THEN similarity_search(programs_store, q, k, NoFilter)
    ELSE similarity_search(prof_store, q, k \div 2, NoFilter)
         \o similarity_search(programs_store, q, k \div 2, NoFilter)

SimpleArgs ==
    [prof_store : SimpleStores, programs_store : SimpleStores, q : SimpleEmbeddings,
     k : 0..MaxSimpleK, query_type : QueryTypes,
     filter : {NoFilter} \cup {FilterOn(c) : c \in CourseCodes}]

InitSimple ==
    /\ fn \in {"similarity_search", "retrieve_context"}
    /\ arg \in SimpleArgs
    /\ fn = "similarity_search" =>
          (arg.programs_store = <<>> /\ arg.query_type = "general")
    /\ fn = "retrieve_context" => (arg.filter = NoFilter /\ arg.k >= 1)
    /\ res = Raises("")
    /\ returned = FALSE
    /\ BoIdle
    /\ ApiIdle
    /\ StoreIdle
    /\ ChunkIdle
    /\ ScriptIdle

\* prof_store.similarity_search(query_embedding, k, filter_dict)
SimilaritySearchCall ==
    /\ fn = "similarity_search"
    /\ ~returned
    /\ res' = Returns(similarity_search(arg.prof_store, arg.q, arg.k, arg.filter))
    /\ returned' = TRUE
    /\ UNCHANGED <<fn, arg, boVars, apiVars, storeVars, chunkVars, scriptVars>>

\* rag.retrieve_context(query, query_type, k)
RetrieveContextCall ==
    /\ fn = "retrieve_context"
    /\ ~returned
    /\ res' = Returns(retrieve_context(arg.prof_store, arg.programs_store, arg.q,
                                       arg.query_type, arg.k))
    /\ returned' = TRUE
    /\ UNCHANGED <<fn, arg, boVars, apiVars, storeVars, chunkVars, scriptVars>>

NextSimple ==
    \/ SimilaritySearchCall
    \/ RetrieveContextCall

SpecSimple == InitSimple /\ [][NextSimple]_vars

\* C28: similarity_search returns at most k documents for every k >= 0, and
\* retrieve_context returns at most k documents for every k >= 1 and every
\* query type.
C28_Claim ==
    (fn \in {"similarity_search", "retrieve_context"} /\ returned) =>
        Len(res.value) <= arg.k

\* What does hold: similarity_search returns at most max(k, 1) documents,
\* and retrieve_context at most k for the types "professor" and "program"
\* and for every k >= 2.
C28_AtMostMax ==
    /\ (fn = "similarity_search" /\ returned) =>
          Len(res.value) <= (IF arg.k = 0 THEN 1 ELSE arg.k)
    /\ (fn = "retrieve_context" /\ returned
          /\ (arg.query_type # "general" \/ arg.k >= 2)) =>
          Len(res.value) <= arg.k

\* retrieve_context(query, "general", k=1) returned two documents.
C28_TwoForOne ==
    /\ fn = "retrieve_context" /\ returned
    /\ arg.k = 1 /\ Len(res.value) = 2


(***************************************************************************)
(* Console chat loops: chat() of demo/chat_cli.py and main() of            *)
(* demo/chatbot_demo.py, from `while True` on                              *)
(***************************************************************************)

MaxLines == 3
MaxErrors == 2

Demos == {"chat_cli", "chatbot_demo"}

\* What input() meets: a blank line, one of quit / exit / q, help, a
\* question, or Ctrl-C (KeyboardInterrupt); after the last event the input
\* has ended and input() raises EOFError.
InputEvents == {"blank", "quit", "help", "question", "interrupt"}
Inputs == UNION {[1..n -> InputEvents] : n \in 0..MaxLines}

\* How answering a question ends: chat_cli posts to the API (an answer, an
\* error status, no connection, or another exception such as a timeout);
\* chatbot_demo calls rag.answer_question (an answer or an exception).
AnswerOutcomes(d) ==
    IF d = "chat_cli" THEN {"answer", "status", "ConnectionError", "Exception", "interrupt"}
    ELSE {"answer", "Exception", "interrupt"}

InitLoop ==
    /\ demo \in Demos
    /\ lpc = "read"
    /\ stdin \in Inputs
    /\ question = ""
    /\ errors = 0
    /\ MainIdle
    /\ BoIdle
    /\ ApiIdle
    /\ StoreIdle
    /\ ChunkIdle
    /\ FnIdle

LoopFrame == UNCHANGED <<demo, mainVars, boVars, apiVars, storeVars, chunkVars, fnVars>>

\* print(f"Error: {e}"): one more error on the console.
Printed(n) == IF n < MaxErrors THEN n + 1 ELSE n

\* question = input().strip() and the tests on it.
LoopRead ==
    /\ lpc = "read"
    /\ stdin # <<>>
    /\ stdin' = Tail(stdin)
    /\ question' = Head(stdin)
    /\ lpc' = IF Head(stdin) \in {"quit", "interrupt"} THEN "done"
              ELSE IF Head(stdin) = "question" THEN "handle"
              ELSE "read"
    /\ UNCHANGED errors
    /\ LoopFrame

\* input() at end of input raises EOFError, an Exception: control goes to
\* the generic handler.
LoopEndOfInput ==
    /\ lpc = "read"
    /\ stdin = <<>>
    /\ lpc' = "except"
    /\ UNCHANGED <<stdin, question, errors>>
    /\ LoopFrame

\* except Exception as e: the error is printed and `while True` starts over.
LoopExcept ==
    /\ lpc = "except"
    /\ errors' = Printed(errors)
    /\ lpc' = "read"
    /\ UNCHANGED <<stdin, question>>
    /\ LoopFrame

\* The question is answered, or the attempt fails.
LoopHandle ==
    /\ lpc = "handle"
    /\ \E o \in AnswerOutcomes(demo) :
          lpc' = IF o \in {"ConnectionError", "interrupt"} THEN "done"
                 ELSE IF o = "Exception" THEN "except"
                 ELSE "read"
    /\ UNCHANGED <<stdin, question, errors>>
    /\ LoopFrame

NextLoop ==
    \/ LoopRead
    \/ LoopEndOfInput
    \/ LoopExcept
    \/ LoopHandle

SpecLoop == InitLoop /\ [][NextLoop]_vars

\* The process keeps running while the loop has a step to take.
FairLoop == SpecLoop /\ WF_vars(NextLoop)

\* C30: the console chat loops terminate when their input ends: once
\* reading a line fails with end-of-input, the loop is left after finitely
\* many steps.
C30_Claim == (lpc = "read" /\ stdin = <<>>) ~> (lpc = "done")

\* What does hold: quit / exit / q and an interruption leave the loop.
C30_QuitLeaves ==
    [][(lpc = "read" /\ stdin # <<>> /\ Head(stdin) \in {"quit", "interrupt"})
         => lpc' = "done"]_vars

\* At end of input the loop is never left.
C30_EndOfInputStays ==
    [][(lpc \in {"read", "except"} /\ stdin = <<>>) => lpc' \in {"read", "except"}]_vars

\* The loop is reading at end of input after it printed MaxErrors errors.
C30_Spinning == lpc = "read" /\ stdin = <<>> /\ errors = MaxErrors

====
